---- MODULE Spec2Model ----
(***************************************************************************)
(* Docuverse-Ai: the dependency analyzer (DependencyAnalyzer), its graph   *)
(* analytics and the risk score of the impact endpoints.                   *)
(*                                                                         *)
(* Encoding of strings.  A path is the sequence of its components between  *)
(* "/" separators ("pkg/a.py" is <<"pkg", "a.py">>, "" is <<>>, a leading  *)
(* "" component is the root of an absolute path).  A Python specifier is   *)
(* the sequence of its parts between "." ("pkg.mod" is <<"pkg", "mod">>,   *)
(* ".x" is <<"", "x">>); a JavaScript/TypeScript specifier is the sequence *)
(* of its parts between "/" ("./x" is <<".", "x">>).                       *)
(***************************************************************************)
EXTENDS Integers, Sequences, FiniteSets, TLC

VARIABLES disk, graph, call, res, service

vars == <<disk, graph, call, res, service>>

(***************************************************************************)
(* Small helpers on sequences and sets.                                    *)
(***************************************************************************)
Range(s) == {s[i] : i \in 1..Len(s)}

Min(a, b) == IF a <= b THEN a ELSE b

Max(a, b) == IF a >= b THEN a ELSE b

Contains(s, x) == \E i \in 1..Len(s) : s[i] = x

\* list.append when absent (insertion-ordered dict keys / adjacency)
AppendNew(s, x) == IF Contains(s, x) THEN s ELSE Append(s, x)

\* TLC evaluates the argument of an operator when it is first used: a loop
\* written as a recursion tests Done(v) on each accumulated value v, so that
\* it is computed at its own iteration
Done(v) == v = v

\* a normal return and a raised exception
Ret(v) == [raised |-> FALSE, value |-> v]

Raise(e) == [raised |-> TRUE, value |-> e]

(***************************************************************************)
(* networkx.DiGraph, as far as the analyzer uses it: insertion-ordered     *)
(* node dict and successor / predecessor adjacency.                        *)
(***************************************************************************)
NoneGraph == [isNone |-> TRUE, nodes |-> <<>>, succ |-> <<>>, pred |-> <<>>]

DiGraph == [isNone |-> FALSE, nodes |-> <<>>, succ |-> <<>>, pred |-> <<>>]

NodeSet(G) == Range(G.nodes)

HasNode(G, n) == n \in NodeSet(G)

add_node(G, n) ==
    IF HasNode(G, n) THEN G
    ELSE [G EXCEPT !.nodes = Append(@, n),
                   !.succ = (n :> <<>>) @@ @,
                   !.pred = (n :> <<>>) @@ @]

add_edge(G, u, v) ==
    LET G2 == add_node(add_node(G, u), v)
    IN [G2 EXCEPT !.succ[u] = AppendNew(@, v),
                  !.pred[v] = AppendNew(@, u)]

\* G.successors(n) / G.predecessors(n): NetworkXError for a node not in G
successors(G, n) ==
    IF HasNode(G, n) THEN Ret(G.succ[n]) ELSE Raise("NetworkXError")

predecessors(G, n) ==
    IF HasNode(G, n) THEN Ret(G.pred[n]) ELSE Raise("NetworkXError")

in_degree(G, n) == Len(G.pred[n])

number_of_nodes(G) == Len(G.nodes)

RECURSIVE SumLen(_, _)
SumLen(f, S) ==
    IF S = {} THEN 0
    ELSE LET n == CHOOSE x \in S : TRUE
         IN Len(f[n]) + SumLen(f, S \ {n})

number_of_edges(G) == SumLen(G.succ, NodeSet(G))

(***************************************************************************)
(* The file tree analyze_repository walks.  A file is                      *)
(*   [dir, stem, ext, readable, content]                                   *)
(* and a tree is the sequence of its files in os.walk order.  A content    *)
(* line is [kw, spec]: the statement form the extractor's patterns tell    *)
(* apart, and the specifier it names.                                      *)
(***************************************************************************)
lang_extensions ==
    [e \in {".py", ".js", ".jsx", ".ts", ".tsx"} |->
        CASE e = ".py" -> "python"
          [] e \in {".js", ".jsx"} -> "javascript"
          [] OTHER -> "typescript"]

IgnoredDirs ==
    {"node_modules", ".git", "__pycache__", "venv", "env", "dist", "build", ".next"}

\* str.lower() on the extensions the model's trees use
Lower(e) == CASE e = ".PY" -> ".py" [] e = ".JS" -> ".js" [] OTHER -> e

RelPath(f) == f.dir \o <<f.stem \o f.ext>>

\* os.walk with the pruning of dirs[:], and the extension filter
Walked(f) ==
    /\ \A i \in 1..Len(f.dir) : f.dir[i] \notin IgnoredDirs
    /\ Lower(f.ext) \in DOMAIN lang_extensions

\* source_files: relative path -> language, in walk order
SourceFiles(tree) ==
    LET kept == SelectSeq(tree, Walked)
    IN [i \in 1..Len(kept) |->
           [path |-> RelPath(kept[i]),
            language |-> lang_extensions[Lower(kept[i].ext)],
            file |-> kept[i]]]

KnownPaths(source_files) == {source_files[i].path : i \in 1..Len(source_files)}

(***************************************************************************)
(* _extract_imports                                                        *)
(***************************************************************************)
IsPyImport(line) == line.kw \in {"import", "from"}

IsEsImport(line) == line.kw = "es_import"

IsRequire(line) == line.kw = "require"

SpecsOf(lines) == [i \in 1..Len(lines) |-> lines[i].spec]

extract_imports(content, language) ==
    IF language = "python"
    THEN SpecsOf(SelectSeq(content, IsPyImport))
    ELSE IF language \in {"javascript", "typescript"}
    THEN SpecsOf(SelectSeq(content, IsEsImport))
         \o SpecsOf(SelectSeq(content, IsRequire))
    ELSE <<>>

(***************************************************************************)
(* os.path and _resolve_import                                             *)
(***************************************************************************)
dirname(p) == IF p = <<>> THEN <<>> ELSE SubSeq(p, 1, Len(p) - 1)

IsAbs(p) == p # <<>> /\ p[1] = ""

join(d, p) == IF IsAbs(p) \/ d = <<>> THEN p ELSE d \o p

\* candidate = path + ext, the extension being glued to the last component
PlusExt(p, e) == IF p = <<>> THEN <<e>> ELSE [p EXCEPT ![Len(p)] = @ \o e]

\* candidate = path + "/" + name
PlusIndex(p, name) == Append(p, name)

RECURSIVE NormFrom(_, _, _)
NormFrom(p, i, acc) ==
    IF i > Len(p) THEN acc
    ELSE LET next ==
                 IF p[i] \in {"", "."} THEN acc
                 ELSE IF p[i] = ".."
                 THEN IF acc # <<>> /\ acc[Len(acc)] # ".."
                      THEN SubSeq(acc, 1, Len(acc) - 1)
                      ELSE Append(acc, "..")
                 ELSE Append(acc, p[i])
         IN IF Done(next) THEN NormFrom(p, i + 1, next) ELSE next

\* os.path.normpath of a relative path
normpath(p) == LET n == NormFrom(p, 1, <<>>) IN IF n = <<>> THEN <<".">> ELSE n

PyCandidates(p) == <<PlusExt(p, ".py"), PlusIndex(p, "__init__.py")>>

JsCandidates(p) ==
    <<p, PlusExt(p, ".js"), PlusExt(p, ".jsx"), PlusExt(p, ".ts"), PlusExt(p, ".tsx"),
      PlusIndex(p, "index.js"), PlusIndex(p, "index.ts")>>

\* the first candidate that is a key of source_files, <<>> for None
FirstKnown(cands, known) ==
    IF \E i \in 1..Len(cands) : cands[i] \in known
    THEN cands[CHOOSE i \in 1..Len(cands) :
                  /\ cands[i] \in known
                  /\ \A j \in 1..(i - 1) : cands[j] \notin known]
    ELSE <<>>

\* import_name.startswith(".")
StartsWithDot(spec) == spec # <<>> /\ spec[1] \in {".", ".."}

\* faulty variant: for Python the directory of the importing file is probed first
resolve_import_relative_first(import_name, source_file, known, language) ==
    IF language = "python"
    THEN LET module_path == import_name
             relative_path == join(dirname(source_file), module_path)
             relative == FirstKnown(PyCandidates(relative_path), known)
         IN IF relative # <<>> THEN relative
            ELSE FirstKnown(PyCandidates(module_path), known)
    ELSE IF language \in {"javascript", "typescript"}
    THEN IF StartsWithDot(import_name)
         THEN FirstKnown(JsCandidates(normpath(join(dirname(source_file), import_name))),
                         known)
         ELSE <<>>
    ELSE <<>>

resolve_import(import_name, source_file, known, language) ==
    IF language = "python"
    THEN LET module_path == import_name
             direct == FirstKnown(PyCandidates(module_path), known)
             relative_path == join(dirname(source_file), module_path)
         IN IF direct # <<>> THEN direct
            ELSE FirstKnown(PyCandidates(relative_path), known)
    ELSE IF language \in {"javascript", "typescript"}
    THEN IF StartsWithDot(import_name)
         THEN FirstKnown(JsCandidates(normpath(join(dirname(source_file), import_name))),
                         known)
         ELSE <<>>
    ELSE <<>>

(***************************************************************************)
(* analyze_repository                                                      *)
(***************************************************************************)
RECURSIVE AddNodes(_, _, _)
AddNodes(G, source_files, i) ==
    IF i > Len(source_files) THEN G
    ELSE LET G2 == add_node(G, source_files[i].path)
         IN IF Done(G2) THEN AddNodes(G2, source_files, i + 1) ELSE G2

\* faulty variant: an import that resolves to no file is added to the graph too
RECURSIVE ImportLoop_adding_externals(_, _, _, _, _, _)
ImportLoop_adding_externals(st, file_imports, i, file_path, known, language) ==
    IF i > Len(file_imports) THEN st
    ELSE LET import_name == file_imports[i]
             resolved == resolve_import(import_name, file_path, known, language)
             target == IF resolved # <<>> THEN resolved ELSE import_name
             next ==
                 [graph |-> add_edge(st.graph, file_path, target),
                  edges |-> Append(st.edges,
                              [source |-> file_path, target |-> target,
                               import_name |-> import_name,
                               is_external |-> resolved = <<>>])]
         IN IF Done(next)
            THEN ImportLoop_adding_externals(next, file_imports, i + 1, file_path,
                                             known, language)
            ELSE next

\* the loop over one file's imports; st = [graph, edges]
RECURSIVE ImportLoop(_, _, _, _, _, _)
ImportLoop(st, file_imports, i, file_path, known, language) ==
    IF i > Len(file_imports) THEN st
    ELSE LET import_name == file_imports[i]
             resolved == resolve_import(import_name, file_path, known, language)
             next ==
                 IF resolved # <<>>
                 THEN [graph |-> add_edge(st.graph, file_path, resolved),
                       edges |-> Append(st.edges,
                                   [source |-> file_path, target |-> resolved,
                                    import_name |-> import_name, is_external |-> FALSE])]
                 ELSE [graph |-> st.graph,
                       edges |-> Append(st.edges,
                                   [source |-> file_path, target |-> import_name,
                                    import_name |-> import_name, is_external |-> TRUE])]
         IN IF Done(next)
            THEN ImportLoop(next, file_imports, i + 1, file_path, known, language)
            ELSE next

\* faulty variant: the first file that cannot be read ends the loop
RECURSIVE FileLoop_aborting(_, _, _)
FileLoop_aborting(st, source_files, i) ==
    IF i > Len(source_files) THEN st
    ELSE LET sf == source_files[i]
         IN IF sf.file.readable
            THEN LET next == ImportLoop(st, extract_imports(sf.file.content, sf.language),
                                        1, sf.path, KnownPaths(source_files), sf.language)
                 IN IF Done(next) THEN FileLoop_aborting(next, source_files, i + 1)
                    ELSE next
            ELSE st

\* the loop over source_files; an unreadable file raises in open() and is skipped
RECURSIVE FileLoop(_, _, _)
FileLoop(st, source_files, i) ==
    IF i > Len(source_files) THEN st
    ELSE LET sf == source_files[i]
             next ==
                 IF sf.file.readable
                 THEN ImportLoop(st, extract_imports(sf.file.content, sf.language), 1,
                                 sf.path, KnownPaths(source_files), sf.language)
                 ELSE st
         IN IF Done(next) THEN FileLoop(next, source_files, i + 1) ELSE next

\* tree is what os.walk finds under repo_path (<<>> when the root does not exist)
analyze_repository(tree) ==
    LET source_files == SourceFiles(tree)
        G0 == AddNodes(DiGraph, source_files, 1)
        st == FileLoop([graph |-> G0, edges |-> <<>>], source_files, 1)
    IN [graph |-> st.graph,
        result |-> [nodes |-> [i \in 1..Len(source_files) |-> source_files[i].path],
                    edges |-> st.edges]]

(***************************************************************************)
(* Graph analytics.  A dict is a function from its keys; {} is <<>>.  The  *)
(* key f"level_{depth}" is <<"level", depth>>.                             *)
(***************************************************************************)
EmptyDict == <<>>

LevelKey(depth) == <<"level", depth>>

get_file_dependencies(G, file_path) ==
    IF G.isNone THEN Ret(<<>>)
    ELSE IF ~HasNode(G, file_path) THEN Ret(<<>>)
    ELSE successors(G, file_path)

\* faulty variant: no test that the file is a node of the graph
get_file_dependents_unchecked(G, file_path) ==
    IF G.isNone THEN Ret(<<>>)
    ELSE predecessors(G, file_path)

get_file_dependents(G, file_path) ==
    IF G.isNone THEN Ret(<<>>)
    ELSE IF ~HasNode(G, file_path) THEN Ret(<<>>)
    ELSE predecessors(G, file_path)

\* faulty variant: a dependency is queued whether or not it was visited
RECURSIVE ChainDeps_revisiting(_, _, _)
ChainDeps_revisiting(st, deps, j) ==
    IF j > Len(deps) THEN st
    ELSE LET next == [visited |-> st.visited \cup {deps[j]},
                      next_level |-> Append(st.next_level, deps[j])]
         IN IF Done(next) THEN ChainDeps_revisiting(next, deps, j + 1) ELSE next

\* for dep in successors(f): if dep not in visited: ...; st = [visited, next_level]
RECURSIVE ChainDeps(_, _, _)
ChainDeps(st, deps, j) ==
    IF j > Len(deps) THEN st
    ELSE LET next == IF deps[j] \notin st.visited
                     THEN [visited |-> st.visited \cup {deps[j]},
                           next_level |-> Append(st.next_level, deps[j])]
                     ELSE st
         IN IF Done(next) THEN ChainDeps(next, deps, j + 1) ELSE next

\* for f in current_level: ...
RECURSIVE ChainLevel(_, _, _, _)
ChainLevel(G, st, current_level, i) ==
    IF i > Len(current_level) THEN st
    ELSE LET next == ChainDeps(st, successors(G, current_level[i]).value, 1)
         IN IF Done(next) THEN ChainLevel(G, next, current_level, i + 1) ELSE next

\* for depth in range(1, max_depth + 1): ...
RECURSIVE ChainLoop(_, _, _, _, _, _)
ChainLoop(G, depth, max_depth, chain, visited, current_level) ==
    IF depth > max_depth THEN chain
    ELSE LET st == ChainLevel(G, [visited |-> visited, next_level |-> <<>>],
                              current_level, 1)
             chain2 == (LevelKey(depth) :> st.next_level) @@ chain
         IN IF st.next_level # <<>> /\ Done(chain2)
            THEN ChainLoop(G, depth + 1, max_depth, chain2, st.visited, st.next_level)
            ELSE chain

\* faulty variant: the start file is not marked as visited
get_dependency_chain_unmarked_start(G, file_path, max_depth) ==
    IF G.isNone \/ ~HasNode(G, file_path) THEN Ret(EmptyDict)
    ELSE Ret(ChainLoop(G, 1, max_depth, EmptyDict, {}, <<file_path>>))

get_dependency_chain(G, file_path, max_depth) ==
    IF G.isNone \/ ~HasNode(G, file_path) THEN Ret(EmptyDict)
    ELSE Ret(ChainLoop(G, 1, max_depth, EmptyDict, {file_path}, <<file_path>>))

\* for dependent in predecessors(current): ...; st = [affected, to_check]
RECURSIVE ImpactPreds(_, _, _)
ImpactPreds(st, preds, j) ==
    IF j > Len(preds) THEN st
    ELSE LET next == IF preds[j] \notin st.affected
                     THEN [affected |-> st.affected \cup {preds[j]},
                           to_check |-> Append(st.to_check, preds[j])]
                     ELSE st
         IN IF Done(next) THEN ImpactPreds(next, preds, j + 1) ELSE next

\* while to_check: current = to_check.pop(); ...
RECURSIVE ImpactLoop(_, _)
ImpactLoop(G, st) ==
    IF st.to_check = <<>> THEN st.affected
    ELSE LET n == Len(st.to_check)
             current == st.to_check[n]
             popped == [st EXCEPT !.to_check = SubSeq(@, 1, n - 1)]
             next == ImpactPreds(popped, predecessors(G, current).value, 1)
         IN IF Done(next) THEN ImpactLoop(G, next) ELSE next.affected

\* faulty variant: the file itself is never counted among the affected files
Affected_excluding_self(G, file_path) ==
    ImpactLoop(G, [affected |-> {}, to_check |-> <<file_path>>]) \ {file_path}

\* faulty variant: the start file is put in the affected set at the start
Affected_marking_start(G, file_path) ==
    ImpactLoop(G, [affected |-> {file_path}, to_check |-> <<file_path>>])

Affected(G, file_path) ==
    ImpactLoop(G, [affected |-> {}, to_check |-> <<file_path>>])

AffectedPreviewLimit == 20

\* the subsets of S that leave out exactly m of its elements
RECURSIVE Without(_, _)
Without(S, m) ==
    IF m <= 0 \/ S = {} THEN {S}
    ELSE UNION {Without(S \ {x}, m - 1) : x \in S}

\* list(a_set)[:k]: the iteration order of a set of str is not fixed, so any
\* k elements may be the ones kept; the list is modelled as the set of its
\* elements (it holds no element twice)
FirstOfSet(S, k) == Without(S, Cardinality(S) - Min(Cardinality(S), k))

\* faulty variant: total_affected is the length of the preview list
get_impact_analysis_preview_total(G, file_path) ==
    IF G.isNone \/ ~HasNode(G, file_path)
    THEN {Ret([error |-> "File not in graph"])}
    ELSE LET affected == Affected(G, file_path)
             direct == predecessors(G, file_path)
         IN {Ret([file |-> file_path,
                  direct_dependents |-> direct.value,
                  total_affected |-> Cardinality(preview),
                  affected_files |-> preview]) :
               preview \in FirstOfSet(affected, AffectedPreviewLimit)}

\* every value get_impact_analysis may return
get_impact_analysis(G, file_path) ==
    IF G.isNone \/ ~HasNode(G, file_path)
    THEN {Ret([error |-> "File not in graph"])}
    ELSE LET affected == Affected(G, file_path)
             direct == predecessors(G, file_path)
         IN IF direct.raised THEN {direct}
            ELSE {Ret([file |-> file_path,
                       direct_dependents |-> direct.value,
                       total_affected |-> Cardinality(affected),
                       affected_files |-> preview]) :
                    preview \in FirstOfSet(affected, AffectedPreviewLimit)}

\* position of node n in the insertion order of G
RECURSIVE IndexOf(_, _, _)
IndexOf(s, x, i) == IF i > Len(s) \/ s[i] = x THEN i ELSE IndexOf(s, x, i + 1)

Idx(G, n) == IndexOf(G.nodes, n, 1)

\* the elementary cycles through path[1] that extend path and visit no node
\* placed before path[1]
RECURSIVE CyclesFrom(_, _)
CyclesFrom(G, path) ==
    LET s == path[1]
        last == path[Len(path)]
        out == Range(G.succ[last])
        closes == IF s \in out THEN {path} ELSE {}
        more == {v \in out : Idx(G, v) > Idx(G, s) /\ v \notin Range(path)}
    IN closes \cup UNION {CyclesFrom(G, Append(path, v)) : v \in more}

\* nx.simple_cycles: each elementary cycle once, as a list of nodes.  Which
\* node a cycle is listed from and the order of the cycles are networkx's
\* choice; each cycle is listed here from its first node in insertion order
\* and the list is modelled as the set of its cycles.
simple_cycles(G) == UNION {CyclesFrom(G, <<n>>) : n \in NodeSet(G)}

CycleLimit == 10

\* faulty variant: the cycles of the graph with its edge directions dropped
Undirected(G) ==
    [G EXCEPT !.succ = [n \in NodeSet(G) |-> G.succ[n] \o G.pred[n]],
              !.pred = [n \in NodeSet(G) |-> G.pred[n] \o G.succ[n]]]

find_circular_dependencies_undirected(G) ==
    IF G.isNone THEN {Ret({})}
    ELSE {Ret(cs) : cs \in FirstOfSet(simple_cycles(Undirected(G)), CycleLimit)}

\* every value find_circular_dependencies may return
find_circular_dependencies(G) ==
    IF G.isNone THEN {Ret({})}
    ELSE {Ret(cs) : cs \in FirstOfSet(simple_cycles(G), CycleLimit)}

\* sorted(in_degrees, key=lambda x: x[1], reverse=True): stable
RECURSIVE SortedByDegree(_, _, _)
SortedByDegree(pairs, i, acc) ==
    IF i > Len(pairs) THEN acc
    ELSE LET x == pairs[i]
             k == Cardinality({j \in 1..Len(acc) : acc[j][2] >= x[2]})
             next == SubSeq(acc, 1, k) \o <<x>> \o SubSeq(acc, k + 1, Len(acc))
         IN IF Done(next) THEN SortedByDegree(pairs, i + 1, next) ELSE next

\* s[:limit]
Slice(s, limit) ==
    IF limit >= 0 THEN SubSeq(s, 1, Min(limit, Len(s)))
    ELSE SubSeq(s, 1, Max(0, Len(s) + limit))

\* faulty variant: the list is cut without having been sorted
get_most_imported_files_unsorted(G, limit) ==
    IF G.isNone THEN Ret(<<>>)
    ELSE LET in_degrees == [i \in 1..Len(G.nodes) |->
                               <<G.nodes[i], in_degree(G, G.nodes[i])>>]
         IN Ret(Slice(in_degrees, limit))

get_most_imported_files(G, limit) ==
    IF G.isNone THEN Ret(<<>>)
    ELSE LET in_degrees == [i \in 1..Len(G.nodes) |->
                               <<G.nodes[i], in_degree(G, G.nodes[i])>>]
         IN Ret(Slice(SortedByDegree(in_degrees, 1, <<>>), limit))

\* nx.is_directed_acyclic_graph: a topological order exists (Kahn: keep
\* removing the nodes no remaining node points to)
RECURSIVE Peel(_, _)
Peel(G, left) ==
    LET free == {n \in left : Range(G.pred[n]) \cap left = {}}
    IN IF free = {} THEN left ELSE Peel(G, left \ free)

is_directed_acyclic_graph(G) == Peel(G, NodeSet(G)) = {}

\* the weakly connected component of the nodes in comp, grown to a fixpoint
RECURSIVE Component(_, _)
Component(G, comp) ==
    LET grown == comp \cup UNION {Range(G.succ[n]) \cup Range(G.pred[n]) : n \in comp}
    IN IF grown = comp THEN comp ELSE Component(G, grown)

RECURSIVE CountComponents(_, _)
CountComponents(G, left) ==
    IF left = {} THEN 0
    ELSE LET n == CHOOSE x \in left : TRUE
         IN 1 + CountComponents(G, left \ Component(G, {n}))

number_weakly_connected_components(G) == CountComponents(G, NodeSet(G))

\* faulty variant: no test for the graph that was never built
get_graph_stats_unguarded(G) ==
    IF G.isNone THEN Raise("AttributeError")
    ELSE Ret([total_files |-> number_of_nodes(G),
              total_dependencies |-> number_of_edges(G),
              is_dag |-> is_directed_acyclic_graph(G),
              connected_components |-> number_weakly_connected_components(G)])

\* faulty variant: an acyclicity test that does not see a file importing itself
RECURSIVE PeelOthers(_, _)
PeelOthers(G, left) ==
    LET free == {n \in left : (Range(G.pred[n]) \ {n}) \cap left = {}}
    IN IF free = {} THEN left ELSE PeelOthers(G, left \ free)

get_graph_stats_blind_to_self_import(G) ==
    IF G.isNone THEN Ret(EmptyDict)
    ELSE Ret([total_files |-> number_of_nodes(G),
              total_dependencies |-> number_of_edges(G),
              is_dag |-> PeelOthers(G, NodeSet(G)) = {},
              connected_components |-> number_weakly_connected_components(G)])

get_graph_stats(G) ==
    IF G.isNone THEN Ret(EmptyDict)
    ELSE Ret([total_files |-> number_of_nodes(G),
              total_dependencies |-> number_of_edges(G),
              is_dag |-> is_directed_acyclic_graph(G),
              connected_components |-> number_weakly_connected_components(G)])

(***************************************************************************)
(* The file trees of the model.                                            *)
(***************************************************************************)
File(dir, stem, ext, readable, content) ==
    [dir |-> dir, stem |-> stem, ext |-> ext, readable |-> readable,
     content |-> content]

Line(kw, spec) == [kw |-> kw, spec |-> spec]

Digits == <<"0", "1", "2", "3", "4", "5", "6", "7", "8", "9">>

\* the stem of the i-th generated module: f01, f02, ...
Stem(i) == "f" \o Digits[(i \div 10) + 1] \o Digits[(i % 10) + 1]

SmallStems == <<"a", "b", "c">>

SmallIdx == 1..Len(SmallStems)

\* a.py, b.py, c.py at the repository root, file i importing the files of
\* imp[i]; a.py also imports a module outside the repository, b.py holds a
\* line that is no import
SmallTree(imp) ==
    [i \in SmallIdx |->
        File(<<>>, SmallStems[i], ".py", TRUE,
             (IF i = 1 THEN <<Line("import", <<"os">>)>> ELSE <<>>)
             \o (IF i = 2 THEN <<Line("text", <<>>)>> ELSE <<>>)
             \o [k \in 1..Cardinality(imp[i]) |->
                   LET j == CHOOSE x \in imp[i] :
                                Cardinality({y \in imp[i] : y < x}) = k - 1
                   IN Line(IF i = 2 THEN "from" ELSE "import", <<SmallStems[j]>>)])]

SmallTrees == {SmallTree(imp) : imp \in [SmallIdx -> SUBSET SmallIdx]}

\* pkg/f01.py imports pkg.f02, ..., the last file imports nothing
ChainLen == 4

ChainTree(n) ==
    [i \in 1..n |->
        File(<<"pkg">>, Stem(i), ".py", TRUE,
             IF i < n THEN <<Line("from", <<"pkg", Stem(i + 1)>>)>> ELSE <<>>)]

\* n files that each import util.py, which imports nothing
StarSize == 10

OverPreview == 1

StarTree(n) ==
    [i \in 1..(n + 1) |->
        IF i <= n THEN File(<<>>, Stem(i), ".py", TRUE, <<Line("import", <<"util">>)>>)
        ELSE File(<<>>, "util", ".py", TRUE, <<>>)]

\* n pairs of files, the two files of a pair importing each other
OverCycles == 1

PairsTree(n) ==
    [i \in 1..(2 * n) |->
        File(<<>>, Stem(i), ".py", TRUE,
             <<Line("import", <<Stem(IF i % 2 = 1 THEN i + 1 ELSE i - 1)>>)>>)]

\* a JavaScript/TypeScript repository with a vendored directory, a file that
\* is no source file and a source file that cannot be read
WebTree ==
    <<File(<<"src">>, "x", ".js", TRUE,
           <<Line("require", <<"react">>), Line("es_import", <<".", "y">>)>>),
      File(<<"src">>, "y", ".ts", TRUE, <<Line("es_import", <<".", "x">>)>>),
      File(<<"node_modules", "react">>, "index", ".js", TRUE, <<>>),
      File(<<>>, "README", ".md", TRUE, <<>>),
      File(<<"src">>, "blob", ".py", FALSE, <<Line("import", <<"x">>)>>)>>

\* a.py, b.py, c.py each importing the other two, file k being unreadable
BrokenTree(k) ==
    [i \in SmallIdx |->
        File(<<>>, SmallStems[i], ".py", i # k,
             [n \in 1..2 |-> Line("import", <<SmallStems[((i + n - 1) % 3) + 1]>>)])]

\* a Python package: a module name that exists both at the repository root
\* and beside the importing file, package __init__ files, a subpackage, and
\* relative imports written with leading dots
PackageTree ==
    <<File(<<>>, "x", ".py", TRUE, <<>>),
      File(<<"pkg">>, "__init__", ".py", TRUE, <<>>),
      File(<<"pkg">>, "a", ".py", TRUE,
           <<Line("import", <<"x">>), Line("from", <<"pkg">>),
             Line("import", <<"pkg", "x">>), Line("from", <<"", "x">>),
             Line("import", <<"sub", "m">>), Line("import", <<"numpy">>),
             Line("import", <<"x">>), Line("from", <<"", "">>)>>),
      File(<<"pkg">>, "x", ".py", TRUE, <<Line("from", <<"", "a">>)>>),
      File(<<"pkg", "sub">>, "__init__", ".py", TRUE, <<>>),
      File(<<"pkg", "sub">>, "m", ".py", TRUE,
           <<Line("from", <<"", "", "x">>), Line("import", <<"sub">>)>>)>>

\* JavaScript and TypeScript modules: './' and '../' specifiers, a directory
\* with an index file, a name with both a .js and a .ts file, specifiers
\* that carry their extension, and a bare package name
ModulesTree ==
    <<File(<<>>, "index", ".js", TRUE, <<Line("require", <<".", "src", "app", "main">>)>>),
      File(<<"src", "app">>, "main", ".js", TRUE,
           <<Line("es_import", <<".", "util">>), Line("es_import", <<"..", "lib">>),
             Line("es_import", <<"..", "lib", "helper">>), Line("es_import", <<"react">>),
             Line("require", <<".", "missing">>), Line("require", <<".", "util.ts">>),
             Line("require", <<".", "tool.py">>)>>),
      File(<<"src", "app">>, "tool", ".py", TRUE, <<>>),
      File(<<"src", "app">>, "util", ".js", TRUE, <<>>),
      File(<<"src", "app">>, "util", ".ts", TRUE, <<Line("es_import", <<"..", "..", "index">>)>>),
      File(<<"src", "lib">>, "index", ".js", TRUE, <<>>),
      File(<<"src", "lib">>, "helper", ".ts", TRUE, <<Line("es_import", <<".", "index">>)>>)>>

\* directories of tools: an editor's, a dependency cache below src, build output
ToolingTree ==
    <<File(<<".vscode">>, "tasks", ".js", TRUE, <<>>),
      File(<<"build">>, "gen", ".py", TRUE, <<Line("import", <<"gen">>)>>),
      File(<<"src">>, "main", ".js", TRUE,
           <<Line("require", <<".", "node_modules", "dep">>),
             Line("require", <<"..", ".vscode", "tasks">>)>>),
      File(<<"src", "node_modules", "dep">>, "index", ".js", TRUE,
           <<Line("require", <<"..", "..", "main">>)>>),
      File(<<"src", ".git", "hooks">>, "pre", ".py", TRUE, <<>>)>>

Trees ==
    SmallTrees
    \cup {ChainTree(ChainLen), StarTree(StarSize),
          StarTree(AffectedPreviewLimit + OverPreview),
          PairsTree(CycleLimit + OverCycles), WebTree}
    \cup {BrokenTree(k) : k \in SmallIdx}
    \cup {PackageTree, ModulesTree, ToolingTree}

\* what os.walk finds under a root: nothing when the root does not exist
TreeAt(root) == IF root \in DOMAIN disk THEN disk[root] ELSE <<>>

Roots == DOMAIN disk \cup {"missing"}

DiskPaths == UNION {{RelPath(disk[r][i]) : i \in 1..Len(disk[r])} : r \in DOMAIN disk}

Ghost == <<"ghost.py">>

QueryPaths == DiskPaths \cup {Ghost}

MaxDepth == 3

MaxLimit == 3

(***************************************************************************)
(* The analyzer as a state machine: one action per public method.          *)
(***************************************************************************)
\* ParserService.__init__: no parsers, not initialized
NewParserService == [initialized |-> FALSE, parsers |-> {}]

Init ==
    /\ disk \in {[main |-> t] : t \in Trees}
    /\ graph = NoneGraph
    /\ call = [op |-> "init"]
    /\ res = Ret(<<>>)
    /\ service = NewParserService

Analyze(root) ==
    LET out == analyze_repository(TreeAt(root))
    IN /\ graph' = out.graph
       /\ call' = [op |-> "analyze", root |-> root]
       /\ res' = Ret(out.result)
       /\ UNCHANGED <<disk, service>>

Dependencies(f) ==
    /\ call' = [op |-> "dependencies", file |-> f]
    /\ res' = get_file_dependencies(graph, f)
    /\ UNCHANGED <<disk, graph, service>>

Dependents(f) ==
    /\ call' = [op |-> "dependents", file |-> f]
    /\ res' = get_file_dependents(graph, f)
    /\ UNCHANGED <<disk, graph, service>>

DependencyChain(f, d) ==
    /\ call' = [op |-> "dependency_chain", file |-> f, max_depth |-> d]
    /\ res' = get_dependency_chain(graph, f, d)
    /\ UNCHANGED <<disk, graph, service>>

Impact(f) ==
    /\ call' = [op |-> "impact", file |-> f]
    /\ res' \in get_impact_analysis(graph, f)
    /\ UNCHANGED <<disk, graph, service>>

Cycles ==
    /\ call' = [op |-> "cycles"]
    /\ res' \in find_circular_dependencies(graph)
    /\ UNCHANGED <<disk, graph, service>>

MostImported(limit) ==
    /\ call' = [op |-> "most_imported", limit |-> limit]
    /\ res' = get_most_imported_files(graph, limit)
    /\ UNCHANGED <<disk, graph, service>>

Stats ==
    /\ call' = [op |-> "stats"]
    /\ res' = get_graph_stats(graph)
    /\ UNCHANGED <<disk, graph, service>>

Next ==
    \/ \E root \in Roots : Analyze(root)
    \/ \E f \in QueryPaths : Dependencies(f)
    \/ \E f \in QueryPaths : Dependents(f)
    \/ \E f \in QueryPaths, d \in 0..MaxDepth : DependencyChain(f, d)
    \/ \E f \in QueryPaths : Impact(f)
    \/ Cycles
    \/ \E limit \in 0..MaxLimit : MostImported(limit)
    \/ Stats

Spec == Init /\ [][Next]_vars

(***************************************************************************)
(* The risk score of the impact endpoints (api/endpoints/files.py).        *)
(***************************************************************************)
\* faulty variant: the symbol discount is subtracted without the clamps at 0
calculate_risk_score_unclamped(total_affected, direct_dependents_count, has_cycles, symbol_selected) ==
    LET s1 == Min(total_affected * 8, 60)
        s2 == s1 + Min(direct_dependents_count * 10, 25)
        s3 == IF has_cycles THEN s2 + 15 ELSE s2
        s4 == IF symbol_selected THEN s3 - 10 ELSE s3
    IN Min(s4, 100)

\* faulty variant: the symbol discount is applied before the cycle penalty is added
calculate_risk_score_discount_first(total_affected, direct_dependents_count, has_cycles, symbol_selected) ==
    LET s1 == Min(total_affected * 8, 60)
        s2 == s1 + Min(direct_dependents_count * 10, 25)
        s3 == IF symbol_selected THEN Max(0, s2 - 10) ELSE s2
        s4 == IF has_cycles THEN s3 + 15 ELSE s3
    IN Max(0, Min(s4, 100))

calculate_risk_score(total_affected, direct_dependents_count, has_cycles, symbol_selected) ==
    LET s1 == Min(total_affected * 8, 60)
        s2 == s1 + Min(direct_dependents_count * 10, 25)
        s3 == IF has_cycles THEN s2 + 15 ELSE s2
        s4 == IF symbol_selected THEN Max(0, s3 - 10) ELSE s3
    IN Max(0, Min(s4, 100))

risk_level(score) ==
    IF score >= 70 THEN "high"
    ELSE IF score >= 35 THEN "medium"
    ELSE "low"

MaxAffected == 10

MaxDirect == 4

ScoreMargin == 5

RiskScore(t, d, c, s) ==
    /\ call' = [op |-> "risk_score", total_affected |-> t, direct_dependents_count |-> d,
                has_cycles |-> c, symbol_selected |-> s]
    /\ res' = Ret(calculate_risk_score(t, d, c, s))
    /\ UNCHANGED <<disk, graph, service>>

RiskLevel(score) ==
    /\ call' = [op |-> "risk_level", score |-> score]
    /\ res' = Ret(risk_level(score))
    /\ UNCHANGED <<disk, graph, service>>

InitRisk ==
    /\ disk = [main |-> <<>>]
    /\ graph = NoneGraph
    /\ call = [op |-> "init"]
    /\ res = Ret(<<>>)
    /\ service = NewParserService

NextRisk ==
    \/ \E t \in 0..MaxAffected, d \in 0..MaxDirect, c \in BOOLEAN, s \in BOOLEAN :
          RiskScore(t, d, c, s)
    \/ \E score \in (0 - ScoreMargin)..(100 + ScoreMargin) : RiskLevel(score)

SpecRisk == InitRisk /\ [][NextRisk]_vars

(***************************************************************************)
(* Several analyzer instances analysing at the same time.  In this         *)
(* specification graph, call and res are functions of the instance: its    *)
(* _graph, the locals of its running analyze_repository call (or its last  *)
(* finished call), and the value that call returned.  An analysis is a     *)
(* sequence of steps, one per source file, which steps of the other        *)
(* instance can interleave.                                                *)
(***************************************************************************)
Instances == {1, 2}

\* one iteration of the loop over source_files
FileStep(st, source_files, i) ==
    LET sf == source_files[i]
    IN IF sf.file.readable
       THEN ImportLoop(st, extract_imports(sf.file.content, sf.language), 1,
                       sf.path, KnownPaths(source_files), sf.language)
       ELSE st

InstanceDisks ==
    {[main |-> SmallTree([i \in SmallIdx |-> {(i % 3) + 1}]), other |-> ChainTree(2)],
     [main |-> WebTree, other |-> SmallTree([i \in SmallIdx |-> IF i = 1 THEN {2} ELSE {}])]}

InitInstances ==
    /\ disk \in InstanceDisks
    /\ graph = [i \in Instances |-> NoneGraph]
    /\ call = [i \in Instances |-> [op |-> "init"]]
    /\ res = [i \in Instances |-> Ret(<<>>)]
    /\ service = NewParserService

Running(i) == call[i].op = "analyzing"

Analyzed(i) == call[i].op \in {"analyze", "dependencies", "stats"}

\* faulty variant: the graph of the previous analysis is kept and added to
BeginAnalyze_keeping_graph(i, root) ==
    /\ ~Running(i)
    /\ LET source_files == SourceFiles(TreeAt(root))
       IN /\ graph' = [graph EXCEPT ![i] =
                          AddNodes(IF @.isNone THEN DiGraph ELSE @, source_files, 1)]
          /\ call' = [call EXCEPT ![i] =
                         [op |-> "analyzing", root |-> root,
                          source_files |-> source_files, next |-> 1, edges |-> <<>>]]
    /\ res' = [res EXCEPT ![i] = Ret(<<>>)]
    /\ UNCHANGED <<disk, service>>

\* self._graph = nx.DiGraph(), the walk, and the nodes
BeginAnalyze(i, root) ==
    /\ ~Running(i)
    /\ LET source_files == SourceFiles(TreeAt(root))
       IN /\ graph' = [graph EXCEPT ![i] = AddNodes(DiGraph, source_files, 1)]
          /\ call' = [call EXCEPT ![i] =
                         [op |-> "analyzing", root |-> root,
                          source_files |-> source_files, next |-> 1, edges |-> <<>>]]
    /\ res' = [res EXCEPT ![i] = Ret(<<>>)]
    /\ UNCHANGED <<disk, service>>

AnalyzeFile(i) ==
    /\ Running(i)
    /\ call[i].next <= Len(call[i].source_files)
    /\ LET st == FileStep([graph |-> graph[i], edges |-> call[i].edges],
                          call[i].source_files, call[i].next)
       IN /\ graph' = [graph EXCEPT ![i] = st.graph]
          /\ call' = [call EXCEPT ![i].next = @ + 1, ![i].edges = st.edges]
    /\ UNCHANGED <<disk, res, service>>

ReturnAnalyze(i) ==
    /\ Running(i)
    /\ call[i].next > Len(call[i].source_files)
    /\ res' = [res EXCEPT ![i] =
                  Ret([nodes |-> [k \in 1..Len(call[i].source_files) |->
                                     call[i].source_files[k].path],
                       edges |-> call[i].edges])]
    /\ call' = [call EXCEPT ![i] = [op |-> "analyze", root |-> call[i].root]]
    /\ UNCHANGED <<disk, graph, service>>

InstanceDependencies(i, f) ==
    /\ Analyzed(i)
    /\ call' = [call EXCEPT ![i] = [op |-> "dependencies", root |-> call[i].root,
                                    file |-> f]]
    /\ res' = [res EXCEPT ![i] = get_file_dependencies(graph[i], f)]
    /\ UNCHANGED <<disk, graph, service>>

InstanceStats(i) ==
    /\ Analyzed(i)
    /\ call' = [call EXCEPT ![i] = [op |-> "stats", root |-> call[i].root]]
    /\ res' = [res EXCEPT ![i] = get_graph_stats(graph[i])]
    /\ UNCHANGED <<disk, graph, service>>

NextInstances ==
    \E i \in Instances :
        \/ \E root \in Roots : BeginAnalyze(i, root)
        \/ AnalyzeFile(i)
        \/ ReturnAnalyze(i)
        \/ \E f \in QueryPaths : InstanceDependencies(i, f)
        \/ InstanceStats(i)

SpecInstances == InitInstances /\ [][NextInstances]_vars

(***************************************************************************)
(* ParserService (services/parser.py).                                     *)
(*                                                                         *)
(* A Python source is the sequence of its lines, a line being              *)
(*   [indent, kind, name]                                                  *)
(* with kind "class" (class name:), "def" (def name():), "import",         *)
(* "pass", "blank", or "def_import" (def name(): import m, on one line).   *)
(* indent counts indentation steps.                                        *)
(*                                                                         *)
(* The raw tree is what the tree-sitter Python grammar yields for such a   *)
(* source: a node is [type, row, end_row, text, children], rows counted    *)
(* from 0.                                                                 *)
(***************************************************************************)
PyLine(indent, kind, name) == [indent |-> indent, kind |-> kind, name |-> name]

RawNode(type, row, end_row, text, children) ==
    [type |-> type, row |-> row, end_row |-> end_row, text |-> text,
     children |-> children]

RawLeaf(type, row, text) == RawNode(type, row, row, text, <<>>)

LastRow(nodes, row) == IF nodes = <<>> THEN row ELSE nodes[Len(nodes)].end_row

\* Parser.parse of the tree-sitter Python grammar: the statement on line i,
\* and the statements of a block from line i on at the given indentation
RECURSIVE TsStatement(_, _), TsBlock(_, _, _, _)
TsStatement(lines, i) ==
    LET line == lines[i]
        row == i - 1
    IN CASE line.kind \in {"class", "def"} ->
              LET body == TsBlock(lines, i + 1, line.indent + 1, <<>>)
                  end_row == LastRow(body.nodes, row)
                  block == RawNode("block", row + 1, end_row, "", body.nodes)
                  head == IF line.kind = "class"
                          THEN <<RawLeaf("identifier", row, line.name)>>
                          ELSE <<RawLeaf("identifier", row, line.name),
                                 RawLeaf("parameters", row, "()")>>
              IN [node |-> RawNode(IF line.kind = "class" THEN "class_definition"
                                   ELSE "function_definition",
                                   row, end_row, "", Append(head, block)),
                  next |-> body.next]
         [] line.kind = "def_import" ->
              [node |-> RawNode("function_definition", row, row, "",
                                <<RawLeaf("identifier", row, line.name),
                                  RawLeaf("parameters", row, "()"),
                                  RawNode("block", row, row, "",
                                          <<RawNode("import_statement", row, row, "",
                                                    <<RawLeaf("dotted_name", row, "m")>>)>>)>>),
               next |-> i + 1]
         [] line.kind = "import" ->
              [node |-> RawNode("import_statement", row, row, "",
                                <<RawLeaf("dotted_name", row, line.name)>>),
               next |-> i + 1]
         [] OTHER -> [node |-> RawLeaf("pass_statement", row, "pass"), next |-> i + 1]

TsBlock(lines, i, indent, acc) ==
    IF i > Len(lines) THEN [nodes |-> acc, next |-> i]
    ELSE IF lines[i].kind = "blank" THEN TsBlock(lines, i + 1, indent, acc)
    ELSE IF lines[i].indent < indent THEN [nodes |-> acc, next |-> i]
    ELSE LET s == TsStatement(lines, i)
         IN IF Done(s) THEN TsBlock(lines, s.next, indent, Append(acc, s.node)) ELSE s

\* tree.root_node
TsParse(lines) ==
    LET body == TsBlock(lines, 1, 0, <<>>)
    IN RawNode("module", 0, LastRow(body.nodes, 0), "", body.nodes)

None == "None"

\* _map_node_type
type_mappings ==
    [t \in {"function_definition", "class_definition", "import_statement",
            "import_from_statement", "function_declaration", "arrow_function",
            "method_definition", "class_declaration", "method_declaration",
            "constructor_declaration", "import_declaration", "field_declaration",
            "variable_declaration", "lexical_declaration"} |->
        CASE t \in {"function_definition", "function_declaration", "arrow_function"}
                -> "function"
          [] t \in {"class_definition", "class_declaration"} -> "class"
          [] t \in {"import_statement", "import_from_statement", "import_declaration"}
                -> "import"
          [] t \in {"method_definition", "method_declaration", "constructor_declaration"}
                -> "method"
          [] OTHER -> "variable"]

map_node_type(ts_type) ==
    IF ts_type \in DOMAIN type_mappings THEN type_mappings[ts_type] ELSE None

\* _extract_node_name: the text of the first identifier child
extract_node_name(node) ==
    LET named == {k \in 1..Len(node.children) :
                     node.children[k].type \in {"identifier", "type_identifier", "name"}}
    IN IF named = {} THEN None
       ELSE node.children[CHOOSE k \in named : \A j \in named : k <= j].text

(***************************************************************************)
(* _extract_nodes.  The ASTNode objects of one call live in a heap, the    *)
(* sequence all_nodes; a children list holds heap indices, so that the     *)
(* object in all_nodes and the object in its parent's children list are    *)
(* one object.  An id f"{file_path}:{row}:{uuid4().hex[:6]}" is <<row, h>>, *)
(* h being the random part.  A forest is [heap, roots].                    *)
(***************************************************************************)
ASTNode(id, type, name, start_line, end_line, children) ==
    [id |-> id, type |-> type, name |-> name, start_line |-> start_line,
     end_line |-> end_line, children |-> children]

\* walk_tree: the tracked nodes found at or below a raw node; hexes[k] is
\* the random part drawn for the k-th node of all_nodes
RECURSIVE walk_tree(_, _, _), WalkChildren(_, _, _, _, _)
walk_tree(node, all_nodes, hexes) ==
    LET kids == WalkChildren(node.children, 1, all_nodes, <<>>, hexes)
        node_type == map_node_type(node.type)
    IN IF node_type # None
       THEN LET name == extract_node_name(node)
                idx == Len(kids.all_nodes) + 1
                ast_node == ASTNode(<<node.row, hexes[idx]>>, node_type,
                                    IF name # None THEN name
                                    ELSE "anonymous_" \o node.type,
                                    node.row + 1, node.end_row + 1, kids.out)
            IN [all_nodes |-> Append(kids.all_nodes, ast_node), out |-> <<idx>>]
       ELSE [all_nodes |-> kids.all_nodes, out |-> kids.out]

WalkChildren(children, i, all_nodes, acc, hexes) ==
    IF i > Len(children) THEN [all_nodes |-> all_nodes, out |-> acc]
    ELSE LET r == walk_tree(children[i], all_nodes, hexes)
         IN IF Done(r)
            THEN WalkChildren(children, i + 1, r.all_nodes, acc \o r.out, hexes)
            ELSE r

\* collect_descendant_ids; st = [heap, child_ids]
RECURSIVE collect_descendant_ids(_, _, _), CollectChildren(_, _, _, _)
collect_descendant_ids(st, idx, inside_class) == CollectChildren(st, idx, 1, inside_class)

CollectChildren(st, idx, j, inside_class) ==
    IF j > Len(st.heap[idx].children) THEN st
    ELSE LET child == st.heap[idx].children[j]
             marked ==
                 [heap |-> IF inside_class /\ st.heap[child].type = "function"
                           THEN [st.heap EXCEPT ![child].type = "method"]
                           ELSE st.heap,
                  child_ids |-> st.child_ids \cup {st.heap[child].id}]
             below == collect_descendant_ids(marked, child,
                                             marked.heap[child].type = "class")
         IN IF Done(below) THEN CollectChildren(below, idx, j + 1, inside_class)
            ELSE below

\* for node in all_nodes: collect_descendant_ids(node, ...)
RECURSIVE CollectAll(_, _)
CollectAll(st, i) ==
    IF i > Len(st.heap) THEN st
    ELSE LET next == collect_descendant_ids(st, i, st.heap[i].type = "class")
         IN IF Done(next) THEN CollectAll(next, i + 1) ELSE next

\* [n for n in all_nodes if n.id not in child_ids]
TopLevel(st) ==
    LET keep == {i \in 1..Len(st.heap) : st.heap[i].id \notin st.child_ids}
    IN [k \in 1..Cardinality(keep) |->
           CHOOSE i \in keep : Cardinality({j \in keep : j < i}) = k - 1]

extract_nodes(root_node, hexes) ==
    LET walked == walk_tree(root_node, <<>>, hexes)
        st == CollectAll([heap |-> walked.all_nodes, child_ids |-> {}], 1)
    IN [heap |-> st.heap, roots |-> TopLevel(st)]

(***************************************************************************)
(* _parse_fallback, for Python sources                                     *)
(***************************************************************************)
\* for i in range(start_line + 1, len(lines)), with 0-based i: lines[i] of
\* the code is lines[i + 1] here
RECURSIVE BlockEndScan(_, _, _)
BlockEndScan(lines, i, base_indent) ==
    IF i >= Len(lines) THEN Len(lines)
    ELSE IF lines[i + 1].kind = "blank" THEN BlockEndScan(lines, i + 1, base_indent)
    ELSE IF lines[i + 1].indent <= base_indent THEN i
    ELSE BlockEndScan(lines, i + 1, base_indent)

\* faulty variant: a blank line ends the block
RECURSIVE BlockEndScan_blank_ends(_, _, _)
BlockEndScan_blank_ends(lines, i, base_indent) ==
    IF i >= Len(lines) THEN Len(lines)
    ELSE IF lines[i + 1].kind = "blank" \/ lines[i + 1].indent <= base_indent THEN i
    ELSE BlockEndScan_blank_ends(lines, i + 1, base_indent)

find_block_end_blank_ends(lines, start_line, base_indent) ==
    BlockEndScan_blank_ends(lines, start_line + 1, base_indent)

\* _find_block_end; start_line is the 0-based index of the declaration line
find_block_end(lines, start_line, base_indent) ==
    BlockEndScan(lines, start_line + 1, base_indent)

RECURSIVE FallbackLoop(_, _, _, _)
FallbackLoop(lines, i, nodes, hexes) ==
    IF i > Len(lines) THEN nodes
    ELSE LET line == lines[i]
             id == <<i, hexes[Len(nodes) + 1]>>
             next ==
                 CASE line.kind \in {"def", "def_import"} ->
                        Append(nodes, ASTNode(id, "function", line.name, i,
                                              find_block_end(lines, i - 1, line.indent), <<>>))
                   [] line.kind = "class" ->
                        Append(nodes, ASTNode(id, "class", line.name, i,
                                              find_block_end(lines, i - 1, line.indent), <<>>))
                   [] line.kind = "import" ->
                        Append(nodes, ASTNode(id, "import", "import " \o line.name,
                                              i, i, <<>>))
                   [] OTHER -> nodes
         IN IF Done(next) THEN FallbackLoop(lines, i + 1, next, hexes) ELSE next

\* languages without a branch in _parse_fallback give the empty list
parse_fallback(lines, language, hexes) ==
    LET nodes == IF language = "python" THEN FallbackLoop(lines, 1, <<>>, hexes) ELSE <<>>
    IN [heap |-> nodes, roots |-> [k \in 1..Len(nodes) |-> k]]

(***************************************************************************)
(* _initialize_parsers and parse_file                                      *)
(***************************************************************************)
CorePackages ==
    {"tree_sitter", "tree_sitter_python", "tree_sitter_javascript",
     "tree_sitter_typescript"}

GrammarOrder == <<"python", "javascript", "typescript">>

PackageOf(language) == "tree_sitter_" \o language

\* Parser(Language(...)) of a language returns; broken holds the installed
\* packages whose construction raises an error that is no ImportError
Loads(language, broken) ==
    "tree_sitter" \notin broken /\ PackageOf(language) \notin broken

\* the service after _initialize_parsers, whether the call raised, and
\* whether it went past the guard into the construction body
initialize_parsers(svc, site_packages, broken) ==
    IF svc.initialized THEN [service |-> svc, raised |-> FALSE, built |-> FALSE]
    ELSE IF ~(CorePackages \subseteq site_packages)
    THEN [service |-> [svc EXCEPT !.initialized = TRUE], raised |-> FALSE, built |-> TRUE]
    ELSE LET failing == {k \in 1..Len(GrammarOrder) : ~Loads(GrammarOrder[k], broken)}
             first == CHOOSE k \in failing : \A j \in failing : k <= j
             core == Range(GrammarOrder)
         IN IF failing # {}
            THEN [service |-> [svc EXCEPT !.parsers =
                                  @ \cup {GrammarOrder[j] : j \in 1..(first - 1)}],
                  raised |-> TRUE, built |-> TRUE]
            ELSE IF "tree_sitter_java" \notin site_packages
            THEN [service |-> [initialized |-> TRUE, parsers |-> svc.parsers \cup core],
                  raised |-> FALSE, built |-> TRUE]
            ELSE IF ~Loads("java", broken)
            THEN [service |-> [svc EXCEPT !.parsers = @ \cup core],
                  raised |-> TRUE, built |-> TRUE]
            ELSE [service |-> [initialized |-> TRUE,
                               parsers |-> svc.parsers \cup core \cup {"java"}],
                  raised |-> FALSE, built |-> TRUE]

\* which strategy serves a call: the grammar adapter unless the language has
\* none or the parse or the walk throws
ServedBy(svc, language, throws) ==
    IF language \notin svc.parsers \/ throws THEN "fallback" ELSE "grammar"

\* faulty variant: the grammar adapter's nodes are returned as the flat list
\* all_nodes, without the post-processing
parse_file_flat(svc, lines, language, throws, hexes) ==
    IF ServedBy(svc, language, throws) = "fallback"
    THEN parse_fallback(lines, language, hexes)
    ELSE LET walked == walk_tree(TsParse(lines), <<>>, hexes)
         IN [heap |-> walked.all_nodes,
             roots |-> [k \in 1..Len(walked.all_nodes) |-> k]]

\* svc is the service after _initialize_parsers
parse_file(svc, lines, language, throws, hexes) ==
    IF ServedBy(svc, language, throws) = "fallback"
    THEN parse_fallback(lines, language, hexes)
    ELSE extract_nodes(TsParse(lines), hexes)

(***************************************************************************)
(* The sources parsed in the model, and the parser as a state machine.  In *)
(* this specification disk holds the installed grammar packages and the    *)
(* content of the file being parsed; every installed package loads.        *)
(***************************************************************************)
MaxLines == 3

ShapeKinds == {"class", "def", "pass", "def_import"}

\* the lines that can follow a prefix of a well-formed source: a class or
\* def line opens a block one step deeper, any other line is followed at its
\* own depth or nearer the margin
NextLines(prefix) ==
    LET n == Len(prefix)
        depths == IF n = 0 THEN {0}
                  ELSE IF prefix[n].kind \in {"class", "def"} THEN {prefix[n].indent + 1}
                  ELSE 0..prefix[n].indent
    IN {PyLine(d, k, "n" \o Digits[n + 2]) : d \in depths, k \in ShapeKinds}

RECURSIVE Prefixes(_)
Prefixes(n) ==
    IF n = 0 THEN {<<>>}
    ELSE UNION {{Append(p, l) : l \in NextLines(p)} : p \in Prefixes(n - 1)}

Complete(lines) == lines[Len(lines)].kind \notin {"class", "def"}

GreeterSource ==
    <<PyLine(0, "class", "Greeter"),
      PyLine(1, "def", "__init__"), PyLine(2, "pass", ""),
      PyLine(0, "blank", ""),
      PyLine(1, "def", "hello"), PyLine(2, "pass", "")>>

ScriptSource ==
    <<PyLine(0, "import", "os"), PyLine(0, "def", "main"),
      PyLine(1, "import", "sys"), PyLine(0, "blank", ""), PyLine(1, "pass", "")>>

PySources ==
    UNION {{lines \in Prefixes(n) : Complete(lines)} : n \in 1..MaxLines}
    \cup {GreeterSource, ScriptSource}

Installs == {CorePackages \cup {"tree_sitter_java"}, CorePackages, {}}

\* the values the random part of an id takes in the model
Hex == {"a3f9c1", "0b7e42"}

\* an upper limit of the ids drawn while one source is parsed
Draws(lines) ==
    Cardinality({i \in 1..Len(lines) : lines[i].kind \in {"class", "def", "import"}})
    + 2 * Cardinality({i \in 1..Len(lines) : lines[i].kind = "def_import"})

ParseLanguages == {"python", "ruby"}

InitParser ==
    /\ disk \in {[site_packages |-> p, broken |-> {}, source |-> src] :
                     p \in Installs, src \in PySources}
    /\ graph = NoneGraph
    /\ call = [op |-> "init"]
    /\ res = Ret(<<>>)
    /\ service = NewParserService

Parse(language, throws, hexes) ==
    LET init == initialize_parsers(service, disk.site_packages, disk.broken)
        svc == init.service
    IN /\ service' = svc
       /\ call' = [op |-> "parse", language |-> language,
                   served_by |-> IF init.raised THEN None
                                 ELSE ServedBy(svc, language, throws)]
       /\ res' = IF init.raised THEN Raise("Exception")
                 ELSE Ret(parse_file(svc, disk.source, language, throws, hexes))
       /\ UNCHANGED <<disk, graph>>

NextParser ==
    \E language \in ParseLanguages, throws \in BOOLEAN,
       hexes \in [1..Draws(disk.source) -> Hex] :
        Parse(language, throws, hexes)

SpecParser == InitParser /\ [][NextParser]_vars

(***************************************************************************)
(* The parser where no grammar package is installed, on any text: the      *)
(* lines need not form blocks.                                             *)
(***************************************************************************)
MaxText == 3

MaxIndent == 1

TextLines ==
    {PyLine(0, "blank", "")}
    \cup {PyLine(d, k, "f") : d \in 0..MaxIndent, k \in {"class", "def", "pass"}}

TextSources == UNION {[1..n -> TextLines] : n \in 1..MaxText}

InitFallback ==
    /\ disk \in {[site_packages |-> {}, broken |-> {}, source |-> src] :
                     src \in TextSources}
    /\ graph = NoneGraph
    /\ call = [op |-> "init"]
    /\ res = Ret(<<>>)
    /\ service = NewParserService

NextFallback ==
    \E hexes \in [1..Draws(disk.source) -> Hex] : Parse("python", FALSE, hexes)

SpecFallback == InitFallback /\ [][NextFallback]_vars

(***************************************************************************)
(* The parser services of one server process.  Every request handler that  *)
(* parses constructs its own ParserService; a service that is kept serves  *)
(* several calls.  Here service is the sequence of the services made so    *)
(* far, and call counts, for each of them, the calls it has served and the *)
(* times its construction body was entered.                                *)
(***************************************************************************)
MaxServices == 2

MaxCalls == 3

\* an empty file, which is a source in every language
BlankSource == <<PyLine(0, "blank", "")>>

\* the installed packages whose construction raises
Breakages == {{}, {"tree_sitter_javascript"}, {"tree_sitter_java"}}

GrammarLanguages == {"python", "javascript", "typescript", "java"}

RequestLanguages(source) ==
    IF source = BlankSource THEN {"python", "javascript", "java", "ruby"}
    ELSE ParseLanguages

InitRegistry ==
    /\ disk \in {d \in [site_packages : Installs, broken : Breakages,
                          source : {GreeterSource, BlankSource}] :
                     d.broken \subseteq d.site_packages}
    /\ graph = NoneGraph
    /\ call = [op |-> "init", calls |-> <<>>, constructions |-> <<>>]
    /\ res = Ret(<<>>)
    /\ service = <<>>

\* parser = ParserService()
NewService ==
    /\ Len(service) < MaxServices
    /\ service' = Append(service, NewParserService)
    /\ call' = [op |-> "new", calls |-> Append(call.calls, 0),
                constructions |-> Append(call.constructions, 0)]
    /\ UNCHANGED <<disk, graph, res>>

\* parser.parse_file(content, language, path) on the i-th service
ParseOn(i, language, throws, hexes) ==
    LET init == initialize_parsers(service[i], disk.site_packages, disk.broken)
        svc == init.service
    IN /\ call.calls[i] < MaxCalls
       /\ service' = [service EXCEPT ![i] = svc]
       /\ call' = [op |-> "parse", instance |-> i, language |-> language,
                   throws |-> throws, built |-> init.built,
                   registry_before |-> service[i].parsers,
                   served_by |-> IF init.raised THEN None
                                 ELSE ServedBy(svc, language, throws),
                   calls |-> [call.calls EXCEPT ![i] = @ + 1],
                   constructions |-> [call.constructions EXCEPT
                                         ![i] = @ + (IF init.built THEN 1 ELSE 0)]]
       /\ res' = IF init.raised THEN Raise("Exception")
                 ELSE Ret(parse_file(svc, disk.source, language, throws, hexes))
       /\ UNCHANGED <<disk, graph>>

NextRegistry ==
    \/ NewService
    \/ \E i \in 1..Len(service), language \in RequestLanguages(disk.source),
          throws \in BOOLEAN, hexes \in [1..Draws(disk.source) -> Hex] :
           ParseOn(i, language, throws, hexes)

SpecRegistry == InitRegistry /\ [][NextRegistry]_vars

(***************************************************************************)
(* The traversals of the analyzer, one loop iteration at a time.  The      *)
(* repository has been analyzed; call is the frame of the running          *)
(* traversal, with the files it has expanded so far in expanded; a result  *)
(* is kept under the name of the method it is the result of.               *)
(***************************************************************************)
InitTraversal ==
    /\ disk \in {[main |-> t] : t \in SmallTrees}
    /\ graph = analyze_repository(disk.main).graph
    /\ call = [op |-> "idle"]
    /\ res = Ret([of |-> "nothing"])
    /\ service = NewParserService

\* get_impact_analysis up to the loop: affected = set(); to_check = [file_path]
StartImpact(f) ==
    /\ call.op = "idle"
    /\ HasNode(graph, f)
    /\ call' = [op |-> "impact", file |-> f, affected |-> {}, to_check |-> <<f>>,
                expanded |-> <<>>]
    /\ UNCHANGED <<disk, graph, res, service>>

\* one iteration of while to_check
ImpactStep ==
    /\ call.op = "impact"
    /\ call.to_check # <<>>
    /\ LET n == Len(call.to_check)
           current == call.to_check[n]
           popped == [affected |-> call.affected,
                      to_check |-> SubSeq(call.to_check, 1, n - 1)]
           st == ImpactPreds(popped, predecessors(graph, current).value, 1)
       IN call' = [call EXCEPT !.affected = st.affected, !.to_check = st.to_check,
                               !.expanded = Append(@, current)]
    /\ UNCHANGED <<disk, graph, res, service>>

ImpactReturn ==
    /\ call.op = "impact"
    /\ call.to_check = <<>>
    /\ res' = Ret([of |-> "impact", affected |-> call.affected])
    /\ call' = [op |-> "returned", of |-> "impact", file |-> call.file,
                expanded |-> call.expanded]
    /\ UNCHANGED <<disk, graph, service>>

\* get_dependency_chain up to the loop
StartChain(f, d) ==
    /\ call.op = "idle"
    /\ HasNode(graph, f)
    /\ call' = [op |-> "chain", file |-> f, max_depth |-> d, depth |-> 1,
                chain |-> EmptyDict, visited |-> {f}, current_level |-> <<f>>,
                i |-> 1, next_level |-> <<>>, expanded |-> <<>>]
    /\ UNCHANGED <<disk, graph, res, service>>

\* one iteration of for f in current_level
ChainStep ==
    /\ call.op = "chain"
    /\ call.depth <= call.max_depth
    /\ call.i <= Len(call.current_level)
    /\ LET f == call.current_level[call.i]
           st == ChainDeps([visited |-> call.visited, next_level |-> call.next_level],
                           successors(graph, f).value, 1)
       IN call' = [call EXCEPT !.visited = st.visited, !.next_level = st.next_level,
                               !.i = @ + 1, !.expanded = Append(@, f)]
    /\ UNCHANGED <<disk, graph, res, service>>

\* the end of one iteration of for depth in range(1, max_depth + 1), when
\* the next level is not empty
ChainNextLevel ==
    /\ call.op = "chain"
    /\ call.depth <= call.max_depth
    /\ call.i > Len(call.current_level)
    /\ call.next_level # <<>>
    /\ call' = [call EXCEPT !.chain = (LevelKey(call.depth) :> call.next_level) @@ @,
                            !.current_level = call.next_level,
                            !.next_level = <<>>, !.i = 1, !.depth = @ + 1]
    /\ UNCHANGED <<disk, graph, res, service>>

\* break on an empty level, or the range is used up: return chain
ChainReturn ==
    /\ call.op = "chain"
    /\ \/ call.depth > call.max_depth
       \/ call.i > Len(call.current_level) /\ call.next_level = <<>>
    /\ res' = Ret([of |-> "chain", chain |-> call.chain])
    /\ call' = [op |-> "returned", of |-> "chain", file |-> call.file,
                max_depth |-> call.max_depth, expanded |-> call.expanded]
    /\ UNCHANGED <<disk, graph, service>>

\* find_circular_dependencies: the search itself is networkx's
CyclesCall ==
    /\ call.op = "idle"
    /\ res' \in {Ret([of |-> "cycles", cycles |-> r.value]) :
                     r \in find_circular_dependencies(graph)}
    /\ call' = [op |-> "returned", of |-> "cycles", expanded |-> <<>>]
    /\ UNCHANGED <<disk, graph, service>>

\* the caller goes on to its next query
NextQuery ==
    /\ call.op = "returned"
    /\ call' = [op |-> "idle"]
    /\ UNCHANGED <<disk, graph, res, service>>

TraversalStep ==
    ImpactStep \/ ImpactReturn \/ ChainStep \/ ChainNextLevel \/ ChainReturn

NextTraversal ==
    \/ \E f \in QueryPaths : StartImpact(f)
    \/ \E f \in QueryPaths, d \in 0..MaxDepth : StartChain(f, d)
    \/ CyclesCall
    \/ NextQuery
    \/ TraversalStep

\* a traversal that has started keeps running: it is never suspended
SpecTraversal == InitTraversal /\ [][NextTraversal]_vars /\ WF_call(TraversalStep)

(***************************************************************************)
(* Authentication of the protected endpoints (api/endpoints/auth.py).  A   *)
(* header is a sequence of pieces: the scheme word with its blank and the  *)
(* texts of tokens.  Here disk holds the stores users_db and               *)
(* repositories_db.                                                        *)
(***************************************************************************)
MaxHeader == 3

Bearer == "Bearer "

\* the token texts of the model with what jwt.decode makes of them; any
\* other text (a bad signature, an expired token, two tokens in a row)
\* makes it raise
TokenPayloads ==
    (<<"tokenA">> :> [user_id |-> "alice"])
    @@ (<<"tokenG">> :> [user_id |-> "ghost"])
    @@ (<<"tokenN">> :> [sub |-> "alice"])

HeaderPieces == {Bearer, "tokenA", "tokenG", "tokenN"}

\* the empty sequence is the header that is absent or empty
Headers == UNION {[1..n -> HeaderPieces] : n \in 0..MaxHeader}

AccountIds == {"alice", "ghost"}

RepoIds == {"r1", "r2"}

\* decode_access_token: <<payload>>, or <<>> for None
decode_access_token(token) ==
    IF token \in DOMAIN TokenPayloads THEN <<TokenPayloads[token]>> ELSE <<>>

\* authorization.replace("Bearer ", ""): every occurrence is removed
StripBearer(authorization) == SelectSeq(authorization, LAMBDA piece : piece # Bearer)

Unauthorized(detail) == Raise([status_code |-> 401, detail |-> detail])

get_current_user(authorization, users_db) ==
    IF authorization = <<>> \/ authorization[1] # Bearer
    THEN Unauthorized("Not authenticated")
    ELSE LET payload == decode_access_token(StripBearer(authorization))
         IN IF payload = <<>> \/ "user_id" \notin DOMAIN payload[1]
            THEN Unauthorized("Invalid or expired token")
            ELSE IF payload[1].user_id \notin users_db
            THEN Unauthorized("User session expired. Please login again.")
            ELSE Ret(payload[1].user_id)

InitAuth ==
    /\ disk = [users_db |-> {}, repositories_db |-> ("r1" :> "alice")]
    /\ graph = NoneGraph
    /\ call = [op |-> "init"]
    /\ res = Ret([status_code |-> 0])
    /\ service = NewParserService

\* github_callback, when GitHub accepts the code: users_db[user_id] = user
GithubCallback(u) ==
    /\ disk' = [disk EXCEPT !.users_db = @ \cup {u}]
    /\ call' = [op |-> "login", user |-> u]
    /\ res' = Ret([status_code |-> 302])
    /\ UNCHANGED <<graph, service>>

\* GET /auth/me
GetMe(authorization) ==
    LET user == get_current_user(authorization, disk.users_db)
    IN /\ call' = [op |-> "request", endpoint |-> "me", header |-> authorization,
                   repo_id |-> None, lookups |-> 0]
       /\ res' = IF user.raised THEN user
                 ELSE Ret([status_code |-> 200, id |-> user.value])
       /\ UNCHANGED <<disk, graph, service>>

\* GET /repositories/{repo_id}
GetRepository(authorization, repo_id) ==
    LET user == get_current_user(authorization, disk.users_db)
        found == /\ ~user.raised
                 /\ repo_id \in DOMAIN disk.repositories_db
                 /\ disk.repositories_db[repo_id] = user.value
    IN /\ call' = [op |-> "request", endpoint |-> "repository",
                   header |-> authorization, repo_id |-> repo_id,
                   lookups |-> IF user.raised THEN 0 ELSE 1]
       /\ res' = IF user.raised THEN user
                 ELSE IF ~found
                 THEN Raise([status_code |-> 404, detail |-> "Repository not found"])
                 ELSE Ret([status_code |-> 200, id |-> repo_id])
       /\ UNCHANGED <<disk, graph, service>>

NextAuth ==
    \/ \E u \in AccountIds : GithubCallback(u)
    \/ \E authorization \in Headers : GetMe(authorization)
    \/ \E authorization \in Headers, repo_id \in RepoIds :
          GetRepository(authorization, repo_id)

SpecAuth == InitAuth /\ [][NextAuth]_vars

(***************************************************************************)
(* The impact endpoints (api/endpoints/files.py).  Each request makes its  *)
(* own analyzer and analyzes the repository; graph is the graph of the     *)
(* analyzer of the last request, call.has_cycles the cycle factor the      *)
(* request passed to the risk score.  The texts and diagrams the handlers  *)
(* build from these values are left out of the responses.  A request       *)
(* leaves nothing behind for the next one, so a behaviour is one request   *)
(* on one repository.                                                      *)
(***************************************************************************)
HotspotLimit == 20

TopHotspots == 10

\* whether the file is in one of the cycles of the list
InCycles(all_cycles, file) == \E c \in all_cycles : file \in Range(c)

RECURSIVE SumScores(_)
SumScores(hotspots) ==
    IF hotspots = <<>> THEN 0 ELSE Head(hotspots).risk_score + SumScores(Tail(hotspots))

\* hotspots.sort(key=risk_score, reverse=True): a stable sort of the
\* summaries, which are in node order
SortedHotspots(summaries) ==
    LET n == Len(summaries)
        Rank(i) == Cardinality({j \in 1..n :
                       \/ summaries[j].risk_score > summaries[i].risk_score
                       \/ summaries[j].risk_score = summaries[i].risk_score /\ j < i}) + 1
    IN [k \in 1..n |-> summaries[CHOOSE i \in 1..n : Rank(i) = k]]

\* n files that each import themselves
LoopsTree(n) ==
    [i \in 1..n |-> File(<<>>, Stem(i), ".py", TRUE, <<Line("import", <<Stem(i)>>)>>)]

EndpointTrees == Trees \cup {LoopsTree(CycleLimit + OverCycles)}

InitEndpoints ==
    /\ disk \in {[main |-> t] : t \in EndpointTrees}
    /\ graph = NoneGraph
    /\ call = [op |-> "init"]
    /\ res = Ret([status_code |-> 0])
    /\ service = NewParserService

\* GET /{repo_id}/impact for a path that does not exist in the repository
ImpactRequestNotFound(path) ==
    /\ call.op = "init"
    /\ path \notin DiskPaths
    /\ call' = [op |-> "impact_request", file |-> path, analyzed |-> FALSE]
    /\ res' = Raise([status_code |-> 404, detail |-> "File not found"])
    /\ UNCHANGED <<disk, graph, service>>

\* GET /{repo_id}/impact for an existing file
ImpactRequest(path, symbol_selected) ==
    /\ call.op = "init"
    /\ path \in DiskPaths
    /\ LET G == analyze_repository(TreeAt("main")).graph
       IN /\ Done(G)
          /\ graph' = G
          /\ \E raw_impact \in get_impact_analysis(G, path),
                cycles \in find_circular_dependencies(G) :
                LET missing == "error" \in DOMAIN raw_impact.value
                    direct_dependents ==
                        IF missing THEN <<>> ELSE raw_impact.value.direct_dependents
                    total_affected ==
                        IF missing THEN 0 ELSE raw_impact.value.total_affected
                    has_cycles == InCycles(cycles.value, path)
                    risk_score == calculate_risk_score(total_affected,
                                      Len(direct_dependents), has_cycles, symbol_selected)
                IN /\ call' = [op |-> "impact_request", file |-> path,
                               analyzed |-> TRUE, has_cycles |-> has_cycles]
                   /\ res' = Ret([status_code |-> 200, file |-> path,
                                  direct_dependents |-> direct_dependents,
                                  total_affected |-> total_affected,
                                  circular_dependencies |->
                                      {c \in cycles.value : path \in Range(c)},
                                  risk_score |-> risk_score,
                                  risk_level |-> risk_level(risk_score)])
    /\ UNCHANGED <<disk, service>>

\* one FileImpactSummary of the loop over graph.nodes()
FileSummary(G, all_cycles, node) ==
    LET raw == CHOOSE x \in get_impact_analysis(G, node) : TRUE
        dd == Len(raw.value.direct_dependents)
        ta == raw.value.total_affected
        rs == calculate_risk_score(ta, dd, InCycles(all_cycles, node), FALSE)
    IN [file |-> node, direct_dependents |-> dd, total_affected |-> ta,
        risk_score |-> rs, risk_level |-> risk_level(rs)]

\* the hotspots list after the loop and the sort
Hotspots(G, all_cycles) ==
    LET summaries == [k \in 1..Len(G.nodes) |-> FileSummary(G, all_cycles, G.nodes[k])]
    IN IF Done(summaries) THEN SortedHotspots(summaries) ELSE summaries

\* the mean score of the first TopHotspots entries, 0 for an empty list
OverallScore(hotspots) ==
    LET top_n == SubSeq(hotspots, 1, Min(TopHotspots, Len(hotspots)))
    IN IF top_n = <<>> THEN 0 ELSE SumScores(top_n) \div Len(top_n)

CodebaseImpactResponse(stats, all_cycles, hotspots) ==
    [status_code |-> 200,
     total_files |-> stats.total_files,
     total_dependencies |-> stats.total_dependencies,
     is_dag |-> stats.is_dag,
     circular_dependencies |-> all_cycles,
     hotspots |-> SubSeq(hotspots, 1, Min(HotspotLimit, Len(hotspots))),
     overall_risk_score |-> OverallScore(hotspots),
     overall_risk_level |-> risk_level(OverallScore(hotspots))]

\* the cycle factor the loop gave to each file
CycleFactors(G, all_cycles) == [node \in NodeSet(G) |-> InCycles(all_cycles, node)]

\* GET /{repo_id}/impact/codebase
CodebaseImpactRequest ==
    /\ call.op = "init"
    /\ \E G \in {analyze_repository(TreeAt("main")).graph} :
          /\ graph' = G
          /\ \E cycles \in find_circular_dependencies(G) :
                \E hotspots \in {Hotspots(G, cycles.value)} :
                   /\ call' = [op |-> "codebase_request",
                               has_cycles |-> CycleFactors(G, cycles.value)]
                   /\ res' = Ret(CodebaseImpactResponse(get_graph_stats(G).value,
                                                        cycles.value, hotspots))
    /\ UNCHANGED <<disk, service>>

NextEndpoints ==
    \/ \E path \in QueryPaths : ImpactRequestNotFound(path)
    \/ \E path \in QueryPaths, symbol_selected \in BOOLEAN :
          ImpactRequest(path, symbol_selected)
    \/ CodebaseImpactRequest

SpecEndpoints == InitEndpoints /\ [][NextEndpoints]_vars

(***************************************************************************)
(* Properties.  The graph-theoretic notions below are stated from the      *)
(* import edges alone, independently of the traversals above.              *)
(***************************************************************************)
\* the import edges u -> v of the graph
EdgeSet(G) == {<<u, v>> \in NodeSet(G) \X NodeSet(G) : Contains(G.succ[u], v)}

\* the nodes with an import edge into some node of S
Importers(G, S) == {u \in NodeSet(G) : \E v \in S : <<u, v>> \in EdgeSet(G)}

\* the files that reach f along one or more import edges
RECURSIVE Grow(_, _)
Grow(G, S) ==
    LET T == S \cup Importers(G, S) IN IF T = S THEN S ELSE Grow(G, T)

ReverseReach(G, f) == Grow(G, Importers(G, {f}))

IsImpactReport(r) == ~r.raised /\ "total_affected" \in DOMAIN r.value

\* C1: after analyze(), impact(f) of a node f reports as total_affected the
\* number of files that reach f along one or more import edges, also when
\* that number exceeds the preview of at most 20 entries (which holds only
\* affected files); a file without importers gets no direct dependents and
\* total_affected = 0
C1_ImpactTotal ==
    (call.op = "impact" /\ HasNode(graph, call.file)) =>
        /\ IsImpactReport(res)
        /\ res.value.total_affected = Cardinality(ReverseReach(graph, call.file))
        /\ res.value.affected_files \subseteq ReverseReach(graph, call.file)
        /\ Cardinality(res.value.affected_files)
              = Min(AffectedPreviewLimit, res.value.total_affected)
        /\ Range(res.value.direct_dependents) = Importers(graph, {call.file})
        /\ (Importers(graph, {call.file}) = {} =>
               /\ res.value.direct_dependents = <<>>
               /\ res.value.total_affected = 0)

\* impact() has reported more affected files than the preview holds
C1_Witness ==
    /\ call.op = "impact"
    /\ IsImpactReport(res)
    /\ res.value.total_affected > AffectedPreviewLimit
    /\ Cardinality(res.value.affected_files) = AffectedPreviewLimit

\* C2: for all nodes X and f of the analyzed graph G, the affected set of f
\* in G plus the import edge X -> f contains the affected set of f in G, and
\* contains X
C2_AddImporterMonotone ==
    (call.op = "analyze") =>
        \A X \in NodeSet(graph), f \in NodeSet(graph) :
            LET G2 == add_edge(graph, X, f)
            IN /\ Affected(graph, f) \subseteq Affected(G2, f)
               /\ X \in Affected(G2, f)
               /\ Cardinality(Affected(G2, f)) >= Cardinality(Affected(graph, f))

\* an analyzed graph in which some file X is not yet affected by a file f
\* that already has dependents: the added import enlarges the affected set
C2_Witness ==
    /\ call.op = "analyze"
    /\ \E X \in NodeSet(graph), f \in NodeSet(graph) :
          /\ X \notin Affected(graph, f)
          /\ Affected(graph, f) # {}
          /\ Affected(add_edge(graph, X, f), f) = Affected(graph, f) \cup {X}

\* C3: every cycle returned by cycles() consists of nodes of the graph, and
\* each consecutive pair and the closing pair is an import edge of the graph
C3_CyclesUseEdges ==
    (call.op = "cycles") =>
        /\ ~res.raised
        /\ \A c \in res.value :
              /\ Len(c) >= 1
              /\ \A i \in 1..Len(c) :
                    /\ c[i] \in NodeSet(graph)
                    /\ <<c[i], c[(i % Len(c)) + 1]>> \in EdgeSet(graph)

\* cycles() has returned a cycle through three files
C3_Witness ==
    /\ call.op = "cycles"
    /\ \E c \in res.value : Len(c) = 3

\* files a and b import each other
MutualImport(G, a, b) ==
    a # b /\ <<a, b>> \in EdgeSet(G) /\ <<b, a>> \in EdgeSet(G)

\* C4 as stated: is_dag is false exactly when cycles() returns a cycle, and
\* when a and b import each other cycles() returns a cycle containing both
C4_AsStated ==
    /\ (call.op = "stats" /\ ~graph.isNone) =>
          /\ \A r \in find_circular_dependencies(graph) :
                (res.value.is_dag = FALSE) <=> (r.value # {})
          /\ \A a \in NodeSet(graph), b \in NodeSet(graph) :
                MutualImport(graph, a, b) => res.value.is_dag = FALSE
    /\ (call.op = "cycles" /\ ~graph.isNone) =>
          /\ (res.value # {}) <=> (get_graph_stats(graph).value.is_dag = FALSE)
          /\ \A a \in NodeSet(graph), b \in NodeSet(graph) :
                MutualImport(graph, a, b) =>
                    \E c \in res.value : {a, b} \subseteq Range(c)

\* C4 (amended): is_dag is false exactly when cycles() returns a cycle (a
\* self-import included); when a and b import each other is_dag is false and
\* cycles() returns a cycle containing both unless it returns its full limit
\* of 10 cycles
C4_DagIffNoCycles ==
    /\ (call.op = "stats" /\ ~graph.isNone) =>
          /\ \A r \in find_circular_dependencies(graph) :
                (res.value.is_dag = FALSE) <=> (r.value # {})
          /\ (\E n \in NodeSet(graph) : <<n, n>> \in EdgeSet(graph)) =>
                res.value.is_dag = FALSE
          /\ \A a \in NodeSet(graph), b \in NodeSet(graph) :
                MutualImport(graph, a, b) => res.value.is_dag = FALSE
    /\ (call.op = "cycles" /\ ~graph.isNone) =>
          /\ (res.value # {}) <=> (get_graph_stats(graph).value.is_dag = FALSE)
          /\ \A a \in NodeSet(graph), b \in NodeSet(graph) :
                MutualImport(graph, a, b) =>
                    \/ \E c \in res.value : {a, b} \subseteq Range(c)
                    \/ Cardinality(res.value) = CycleLimit

\* stats() has reported is_dag = false for a graph whose only cycle is two
\* files importing each other
C4_Witness ==
    /\ call.op = "stats"
    /\ ~graph.isNone
    /\ res.value.is_dag = FALSE
    /\ \E a \in NodeSet(graph), b \in NodeSet(graph) :
          MutualImport(graph, a, b) /\ simple_cycles(graph) = {<<a, b>>}

\* C5: the risk score lies in [0, 100] and, the other three arguments
\* fixed, does not decrease when total_affected or direct_dependents grows
C5_ScoreBoundedMonotone ==
    (call.op = "risk_score") =>
        /\ res.value \in 0..100
        /\ \A t \in call.total_affected..(MaxAffected + 1) :
              calculate_risk_score(t, call.direct_dependents_count,
                                   call.has_cycles, call.symbol_selected) >= res.value
        /\ \A d \in call.direct_dependents_count..(MaxDirect + 1) :
              calculate_risk_score(call.total_affected, d,
                                   call.has_cycles, call.symbol_selected) >= res.value

\* a score computed with both caps reached and the cycle penalty: 100
C5_Witness ==
    /\ call.op = "risk_score"
    /\ call.total_affected * 8 > 60
    /\ call.direct_dependents_count * 10 > 25
    /\ call.has_cycles
    /\ ~call.symbol_selected
    /\ res.value = 100

\* the arithmetic of the specification: the sum of the four terms, clamped
SpecifiedScore(t, d, c, s) ==
    LET base == Min(t * 8, 60) + Min(d * 10, 25)
                + (IF c THEN 15 ELSE 0) - (IF s THEN 10 ELSE 0)
    IN IF base < 0 THEN 0 ELSE IF base > 100 THEN 100 ELSE base

\* C6: the score is min(total_affected*8, 60) + min(direct_dependents*10, 25)
\* + 15 if has_cycle - 10 if symbol_scoped, clamped to [0, 100]; the level
\* is "high" iff score >= 70, "medium" iff 35 <= score < 70, else "low"
C6_ExactArithmetic ==
    /\ (call.op = "risk_score") =>
          res.value = SpecifiedScore(call.total_affected, call.direct_dependents_count,
                                     call.has_cycles, call.symbol_selected)
    /\ (call.op = "risk_level") =>
          /\ res.value \in {"high", "medium", "low"}
          /\ (res.value = "high") <=> (call.score >= 70)
          /\ (res.value = "medium") <=> (call.score >= 35 /\ call.score < 70)

\* a symbol-scoped score whose sum before the discount is below 10: the
\* clamp at 0 acts
C6_Witness ==
    /\ call.op = "risk_score"
    /\ call.symbol_selected
    /\ ~call.has_cycles
    /\ call.total_affected = 0
    /\ call.direct_dependents_count = 0
    /\ res.value = 0

\* the files reached from f along at most k import edges
RECURSIVE Within(_, _, _)
Within(G, f, k) ==
    IF k <= 0 THEN {f}
    ELSE LET S == Within(G, f, k - 1)
         IN S \cup {v \in NodeSet(G) : \E u \in S : <<u, v>> \in EdgeSet(G)}

\* the files whose shortest import path from f has k edges (k >= 1)
AtDistance(G, f, k) == Within(G, f, k) \ Within(G, f, k - 1)

\* C7: dependency_chain(f, max_depth) of a node f has the keys level_1 ..
\* level_m for some m <= max_depth; level_k lists, each once, exactly the
\* files at shortest import-path distance k from f; no level is empty, f
\* is in none, and a level within max_depth is missing only if no file is
\* at that distance
C7_ChainLevels ==
    (call.op = "dependency_chain" /\ HasNode(graph, call.file)) =>
        /\ ~res.raised
        /\ \E m \in 0..call.max_depth :
              /\ DOMAIN res.value = {LevelKey(k) : k \in 1..m}
              /\ \A k \in 1..m :
                    LET level == res.value[LevelKey(k)]
                    IN /\ level # <<>>
                       /\ Range(level) = AtDistance(graph, call.file, k)
                       /\ Len(level) = Cardinality(Range(level))
                       /\ call.file \notin Range(level)
              /\ m < call.max_depth => AtDistance(graph, call.file, m + 1) = {}

\* the chain f01 -> f02 -> f03 -> f04 queried from f01 with max_depth = 2:
\* level_1 = [f02], level_2 = [f03], and f04 is left out
C7_Witness ==
    /\ call.op = "dependency_chain"
    /\ call.file = <<"pkg", "f01.py">>
    /\ call.max_depth = 2
    /\ res.value = (LevelKey(1) :> << <<"pkg", "f02.py">> >>)
                   @@ (LevelKey(2) :> << <<"pkg", "f03.py">> >>)
    /\ AtDistance(graph, call.file, 3) = {<<"pkg", "f04.py">>}

\* the files with a resolved import of x, read from the edges analyze returns
ResolvedImporters(edges, x) ==
    {edges[i].source : i \in {j \in 1..Len(edges) :
                                 ~edges[j].is_external /\ edges[j].target = x}}

\* C8: most_imported(limit), limit >= 0, returns min(limit, number of
\* nodes) pairs (file, in-degree) of distinct files in non-increasing
\* in-degree order, the in-degree being the number of distinct files with a
\* resolved import of the file, and no omitted file has a larger in-degree
\* than a returned one
C8_MostImported ==
    (call.op = "most_imported" /\ ~graph.isNone) =>
        /\ ~res.raised
        /\ LET r == res.value
               analysis == analyze_repository(TreeAt("main"))
           IN /\ Len(r) = Min(call.limit, Cardinality(NodeSet(graph)))
              /\ \A i \in 1..Len(r) :
                    /\ r[i][1] \in NodeSet(graph)
                    /\ r[i][2] = Cardinality(Importers(graph, {r[i][1]}))
                    /\ graph = analysis.graph =>
                          r[i][2] = Cardinality(ResolvedImporters(
                                        analysis.result.edges, r[i][1]))
              /\ \A i \in 1..Len(r), j \in 1..Len(r) :
                    i < j => (r[i][2] >= r[j][2] /\ r[i][1] # r[j][1])
              /\ \A x \in NodeSet(graph) \ {r[i][1] : i \in 1..Len(r)} :
                    \A i \in 1..Len(r) : Cardinality(Importers(graph, {x})) <= r[i][2]

\* ten files import util.py: most_imported(1) returns util.py with in-degree 10
C8_Witness ==
    /\ call.op = "most_imported"
    /\ call.limit = 1
    /\ number_of_nodes(graph) = 11
    /\ res.value = << << <<"util.py">>, 10 >> >>

FileQueries == {"dependencies", "dependents", "dependency_chain", "impact"}

NotFound == [error |-> "File not in graph"]

UnknownPathResult ==
    (call.op \in FileQueries /\ ~graph.isNone /\ ~HasNode(graph, call.file)) =>
        /\ ~res.raised
        /\ call.op \in {"dependencies", "dependents"} => res.value = <<>>
        /\ call.op = "dependency_chain" => DOMAIN res.value = {}
        /\ call.op = "impact" => res.value = NotFound

\* C9: for a path that is no node of the analyzed graph, dependents() and
\* dependencies() return [], dependency_chain() returns {}, impact() returns
\* the not-found marker; none raises and none changes the graph
C9_UnknownPath ==
    /\ []UnknownPathResult
    /\ [][(call'.op \in FileQueries /\ ~HasNode(graph, call'.file)) =>
             graph' = graph]_vars

\* dependents() has been asked about a path that is no node of a graph that
\* has nodes
C9_Witness ==
    /\ call.op = "dependents"
    /\ ~graph.isNone
    /\ NodeSet(graph) # {}
    /\ ~HasNode(graph, call.file)
    /\ ~res.raised
    /\ res.value = <<>>

Analytics == FileQueries \cup {"cycles", "most_imported", "stats"}

\* C10 as stated: before any analyze(), every analytics operation returns
\* an empty result and does not raise
C10_AsStated ==
    (graph.isNone /\ call.op \in Analytics) =>
        /\ ~res.raised
        /\ call.op \in {"dependencies", "dependents", "most_imported"} =>
              res.value = <<>>
        /\ call.op \in {"dependency_chain", "stats", "impact"} =>
              DOMAIN res.value = {}
        /\ call.op = "cycles" => res.value = {}

\* C10 (amended): before any analyze(), no analytics operation raises;
\* impact() returns the not-found marker and every other one an empty result
C10_Uninitialized ==
    (graph.isNone /\ call.op \in Analytics) =>
        /\ ~res.raised
        /\ call.op \in {"dependencies", "dependents", "most_imported"} =>
              res.value = <<>>
        /\ call.op \in {"dependency_chain", "stats"} => DOMAIN res.value = {}
        /\ call.op = "cycles" => res.value = {}
        /\ call.op = "impact" => res.value = NotFound

\* impact() has been called before any analyze()
C10_Witness ==
    /\ graph.isNone
    /\ call.op = "impact"
    /\ ~res.raised
    /\ "error" \in DOMAIN res.value

\* C11: what analyze() returns and the graph it leaves are those of an
\* analysis of the tree alone: the same node set and edge set whatever the
\* instance analyzed before and whatever another instance is doing; every
\* node and edge of the graph comes from the tree analyzed last, and later
\* analytics answer from that graph
C11_AnalyzePure ==
    \A i \in Instances :
        Analyzed(i) =>
            LET pure == analyze_repository(TreeAt(call[i].root))
            IN /\ graph[i] = pure.graph
               /\ NodeSet(graph[i]) \subseteq KnownPaths(SourceFiles(TreeAt(call[i].root)))
               /\ \A e \in EdgeSet(graph[i]) :
                     \E k \in 1..Len(pure.result.edges) :
                        /\ ~pure.result.edges[k].is_external
                        /\ pure.result.edges[k].source = e[1]
                        /\ pure.result.edges[k].target = e[2]
               /\ call[i].op = "analyze" =>
                     /\ ~res[i].raised
                     /\ Range(res[i].value.nodes) = Range(pure.result.nodes)
                     /\ Range(res[i].value.edges) = Range(pure.result.edges)
               /\ call[i].op = "dependencies" =>
                     res[i] = get_file_dependencies(pure.graph, call[i].file)
               /\ call[i].op = "stats" => res[i] = get_graph_stats(pure.graph)

\* instance 1 has returned the analysis of one tree while instance 2 is in
\* the middle of analysing another and already holds an edge that the tree
\* of instance 1 does not have
C11_Witness ==
    /\ call[1].op = "analyze"
    /\ Running(2)
    /\ call[2].root # call[1].root
    /\ call[2].next > 1
    /\ call[2].next <= Len(call[2].source_files)
    /\ EdgeSet(graph[2]) \ EdgeSet(graph[1]) # {}
    /\ res[1].value.edges # <<>>

\* the recognized source files of a tree that cannot be read
Unreadable(tree) ==
    {RelPath(tree[i]) : i \in {j \in 1..Len(tree) : Walked(tree[j]) /\ ~tree[j].readable}}

\* C12 as stated: a recognized source file that cannot be read is not in
\* DependencyGraph.nodes, is no node of the graph the analytics query, and
\* is neither source nor target of an edge
C12_AsStated ==
    (call.op = "analyze") =>
        \A u \in Unreadable(TreeAt(call.root)) :
            /\ u \notin Range(res.value.nodes)
            /\ u \notin NodeSet(graph)
            /\ \A k \in 1..Len(res.value.edges) :
                  res.value.edges[k].source # u /\ res.value.edges[k].target # u

\* the edges of a list whose source is f, in order
EdgesFrom(edges, f) ==
    LET From(e) == e.source = f IN SelectSeq(edges, From)

\* the tree with every file readable
Healed(tree) == [i \in 1..Len(tree) |-> [tree[i] EXCEPT !.readable = TRUE]]

\* C13: analyze() returns a graph although a file cannot be read, and every
\* other file contributes exactly the edges it contributes when the failing
\* file can be read, wherever the failing file is in the walk
C13_FailureIsLocal ==
    (call.op = "analyze") =>
        /\ ~res.raised
        /\ LET tree == TreeAt(call.root)
               healed == analyze_repository(Healed(tree))
           IN \A f \in KnownPaths(SourceFiles(tree)) \ Unreadable(tree) :
                 /\ EdgesFrom(res.value.edges, f) = EdgesFrom(healed.result.edges, f)
                 /\ {e \in EdgeSet(graph) : e[1] = f}
                        = {e \in EdgeSet(healed.graph) : e[1] = f}

\* the first file of the walk cannot be read and a later file has its edges
C13_Witness ==
    /\ call.op = "analyze"
    /\ LET tree == TreeAt(call.root)
       IN /\ Len(tree) > 1
          /\ RelPath(tree[1]) \in Unreadable(tree)
          /\ EdgesFrom(res.value.edges, RelPath(tree[Len(tree)])) # <<>>
          /\ <<RelPath(tree[Len(tree)]), RelPath(tree[1])>> \in EdgeSet(graph)

\* the candidates probed for a specifier, in probe order
ProbeOrder(spec, source, language) ==
    IF language = "python"
    THEN PyCandidates(spec) \o PyCandidates(join(dirname(source), spec))
    ELSE IF StartsWithDot(spec)
    THEN JsCandidates(normpath(join(dirname(source), spec)))
    ELSE <<>>

\* C14: analyze() records, for each specifier extracted from a readable
\* file, exactly one edge with that file as source: not external with the
\* first probe candidate in known_files as target if there is one, external
\* with the raw specifier as target otherwise; no other edge is recorded,
\* and the target of every non-external edge is in DependencyGraph.nodes
C14_OneEdgePerSpecifier ==
    (call.op = "analyze") =>
        LET source_files == SourceFiles(TreeAt(call.root))
            known == KnownPaths(source_files)
            edges == res.value.edges
        IN /\ \A n \in 1..Len(source_files) :
                 LET sf == source_files[n]
                     specs == IF sf.file.readable
                              THEN extract_imports(sf.file.content, sf.language)
                              ELSE <<>>
                     mine == EdgesFrom(edges, sf.path)
                 IN /\ Len(mine) = Len(specs)
                    /\ \A k \in 1..Len(specs) :
                          LET probes == ProbeOrder(specs[k], sf.path, sf.language)
                              hits == {j \in 1..Len(probes) : probes[j] \in known}
                          IN /\ mine[k].import_name = specs[k]
                             /\ mine[k].is_external = (hits = {})
                             /\ hits = {} => mine[k].target = specs[k]
                             /\ hits # {} =>
                                   mine[k].target =
                                       probes[CHOOSE j \in hits : \A h \in hits : j <= h]
           /\ \A k \in 1..Len(edges) :
                 /\ edges[k].source \in known
                 /\ ~edges[k].is_external => edges[k].target \in Range(res.value.nodes)

\* pkg/a.py imports x while both x.py and pkg/x.py are known: the edge goes
\* to x.py, the earlier candidate; its import of numpy is external
C14_Witness ==
    /\ call.op = "analyze"
    /\ {<<"x.py">>, <<"pkg", "x.py">>} \subseteq Range(res.value.nodes)
    /\ [source |-> <<"pkg", "a.py">>, target |-> <<"x.py">>,
        import_name |-> <<"x">>, is_external |-> FALSE] \in Range(res.value.edges)
    /\ [source |-> <<"pkg", "a.py">>, target |-> <<"numpy">>,
        import_name |-> <<"numpy">>, is_external |-> TRUE] \in Range(res.value.edges)

\* the language of a file by the extension table
LanguageOf(tree, path) ==
    LET source_files == SourceFiles(tree)
    IN source_files[CHOOSE n \in 1..Len(source_files) : source_files[n].path = path].language

\* C15 as stated: no non-external edge connects files of two different
\* languages
C15_AsStated ==
    (call.op = "analyze") =>
        \A k \in 1..Len(res.value.edges) :
            LET e == res.value.edges[k]
            IN ~e.is_external =>
                  LanguageOf(TreeAt(call.root), e.source)
                      = LanguageOf(TreeAt(call.root), e.target)

\* a Python specifier written with leading dots: the number of dots, and the
\* module path after them ("." alone names the package itself)
LeadingDots(spec) ==
    IF \A k \in 1..Len(spec) : spec[k] = "" THEN Len(spec) - 1
    ELSE (CHOOSE k \in 1..Len(spec) : spec[k] # "" /\ \A j \in 1..(k - 1) : spec[j] = "") - 1

AfterDots(spec) ==
    IF \A k \in 1..Len(spec) : spec[k] = "" THEN <<>>
    ELSE SubSeq(spec, LeadingDots(spec) + 1, Len(spec))

RECURSIVE Up(_, _)
Up(dir, n) == IF n <= 0 \/ dir = <<>> THEN dir ELSE Up(dirname(dir), n - 1)

IsRelative(spec, language) ==
    IF language = "python" THEN spec # <<>> /\ spec[1] = "" ELSE StartsWithDot(spec)

\* the files a relative specifier can name: the module relative to the
\* directory of the importing file, as a plain file or as a package or
\* directory index file
RelativeTargets(spec, source, language) ==
    IF language = "python"
    THEN LET base == Up(dirname(source), LeadingDots(spec) - 1)
             rest == AfterDots(spec)
         IN IF rest = <<>> THEN {base \o <<"__init__.py">>}
            ELSE {PlusExt(base \o rest, ".py"), base \o rest \o <<"__init__.py">>}
    ELSE Range(JsCandidates(normpath(join(dirname(source), spec))))

\* C16 as stated: for every supported language, a relative specifier whose
\* module exists in known_files relative to the directory of the importing
\* file gets a non-external edge to that file, Python leading-dot
\* specifiers included
C16_AsStated ==
    (call.op = "analyze") =>
        LET source_files == SourceFiles(TreeAt(call.root))
            known == KnownPaths(source_files)
        IN \A n \in 1..Len(source_files) :
              LET sf == source_files[n]
                  mine == EdgesFrom(res.value.edges, sf.path)
              IN \A k \in 1..Len(mine) :
                    LET named == RelativeTargets(mine[k].import_name, sf.path, sf.language)
                    IN (IsRelative(mine[k].import_name, sf.language)
                        /\ named \cap known # {}) =>
                           (~mine[k].is_external /\ mine[k].target \in named)

\* directory names of editors, as the other walkers of the repository list them
EditorDirs == {".idea", ".vscode"}

IgnoredKinds == IgnoredDirs \cup EditorDirs

Beneath(path, names) == \E k \in 1..(Len(path) - 1) : path[k] \in names

\* C17 as stated: no file beneath a directory of an ignored kind, editor
\* directories included, is in DependencyGraph.nodes or is the source or
\* the resolved target of an edge
C17_AsStated ==
    (call.op = "analyze") =>
        /\ \A p \in Range(res.value.nodes) : ~Beneath(p, IgnoredKinds)
        /\ \A k \in 1..Len(res.value.edges) :
              LET e == res.value.edges[k]
              IN /\ ~Beneath(e.source, IgnoredKinds)
                 /\ ~e.is_external => ~Beneath(e.target, IgnoredKinds)

\* the kind of the declaration that encloses line n of a source: the last
\* earlier class or def line one indentation step nearer the margin
Encloser(lines, n) ==
    LET outer == {k \in 1..(n - 1) : /\ lines[k].kind \in {"class", "def", "def_import"}
                                     /\ lines[k].indent < lines[n].indent
                                     /\ \A j \in (k + 1)..(n - 1) :
                                           lines[j].kind = "blank"
                                           \/ lines[j].indent > lines[k].indent}
    IN IF outer = {} THEN None
       ELSE lines[CHOOSE k \in outer : \A j \in outer : j <= k].kind

\* C18: in every forest parse() returns no child of a Class node has kind
\* Function; in the forest of the grammar adapter a def is a Method exactly
\* when the declaration that encloses it is a class, so a def inside a
\* method or a function stays a Function
C18_ClassChildrenAreMethods ==
    (call.op = "parse") =>
        LET heap == res.value.heap
        IN /\ \A i \in 1..Len(heap) :
                 heap[i].type = "class" =>
                    \A j \in 1..Len(heap[i].children) :
                       heap[heap[i].children[j]].type # "function"
           /\ call.served_by = "grammar" =>
                 \A i \in 1..Len(heap) :
                    heap[i].type \in {"function", "method"} =>
                       (heap[i].type = "method"
                           <=> Encloser(disk.source, heap[i].start_line) = "class")

\* the grammar adapter has served a source in which a class holds a method
\* that holds a function
C18_Witness ==
    /\ call.op = "parse"
    /\ call.served_by = "grammar"
    /\ LET heap == res.value.heap
       IN \E c \in 1..Len(heap), m \in 1..Len(heap), f \in 1..Len(heap) :
             /\ heap[c].type = "class"
             /\ heap[m].type = "method"
             /\ heap[f].type = "function"
             /\ m \in Range(heap[c].children)
             /\ f \in Range(heap[m].children)

\* the nodes that are in some children list, and those below a node
ChildSet(heap) == UNION {Range(heap[i].children) : i \in 1..Len(heap)}

RECURSIVE Below(_, _, _)
Below(heap, S, n) ==
    LET kids == UNION {Range(heap[i].children) : i \in S}
    IN IF n = 0 THEN kids ELSE kids \cup Below(heap, kids, n - 1)

\* C19 as stated: the forest parse() returns is a set of disjoint trees: no
\* node is below itself, no node is in two children lists or twice in one,
\* and the top-level list holds, once each, exactly the discovered nodes
\* that are a child of no node
C19_AsStated ==
    (call.op = "parse") =>
        LET heap == res.value.heap
            roots == res.value.roots
            all == 1..Len(heap)
        IN /\ \A i \in all : i \notin Below(heap, {i}, Len(heap))
           /\ \A i \in all :
                 Cardinality({<<p, j>> \in all \X all :
                                 j <= Len(heap[p].children) /\ heap[p].children[j] = i}) <= 1
           /\ Range(roots) = all \ ChildSet(heap)
           /\ Len(roots) = Cardinality(Range(roots))

\* C20 as stated: for the source of class Greeter with __init__ and hello,
\* whichever strategy serves Python, parse() returns one top-level node, the
\* Class Greeter, whose children are two Methods named __init__ and hello
C20_AsStated ==
    (call.op = "parse" /\ call.language = "python" /\ disk.source = GreeterSource) =>
        LET heap == res.value.heap
            roots == res.value.roots
        IN /\ Len(roots) = 1
           /\ heap[roots[1]].type = "class"
           /\ heap[roots[1]].name = "Greeter"
           /\ Len(heap[roots[1]].children) = 2
           /\ \A j \in 1..2 : heap[heap[roots[1]].children[j]].type = "method"
           /\ {heap[heap[roots[1]].children[j]].name : j \in 1..2} = {"__init__", "hello"}

RECURSIVE Sum(_)
Sum(seq) == IF seq = <<>> THEN 0 ELSE Head(seq) + Sum(Tail(seq))

\* the lazy initialization of the call just served could not construct
\* every adapter: a package is missing or a construction raised
InitFailed ==
    /\ call.built
    /\ \/ ~(CorePackages \subseteq disk.site_packages)
       \/ disk.broken # {}

\* C21 as stated: parse() never raises, whatever the content and the
\* language tag; when the construction of the adapters fails during the lazy
\* initialization, or the grammar parse or the walk throws, the caller gets
\* the output of the fallback extractor
C21_AsStated ==
    (call.op = "parse") =>
        /\ ~res.raised
        /\ (InitFailed \/ call.throws) => call.served_by = "fallback"

\* C22 as stated: over any sequence of parse() calls of the process the
\* construction body of the lazy initialization is entered at most once
C22_AsStated ==
    (call.op = "parse") => Sum(call.constructions) <= 1

\* C23 as stated: in every parse() call after the first one of a service,
\* construction is not attempted again, a language without a constructed
\* adapter is served by the fallback extractor, and a language whose adapter
\* was constructed is served by its grammar adapter unless the parse throws
C23_AsStated ==
    (call.op = "parse" /\ call.calls[call.instance] > 1) =>
        /\ ~call.built
        /\ call.language \notin call.registry_before => call.served_by = "fallback"
        /\ (call.language \in call.registry_before /\ ~call.throws)
              => call.served_by = "grammar"

\* how often file f was expanded by the running or returned traversal
Expansions(f) == Cardinality({k \in 1..Len(call.expanded) : call.expanded[k] = f})

InTraversal == call.op \in {"impact", "chain"}

\* the frame is, or was until it returned, one of get_impact_analysis
ImpactFrame == call.op = "impact" \/ (call.op = "returned" /\ call.of = "impact")

\* C24 as stated: the traversals terminate and no file is expanded more
\* than once by a chain or impact traversal
C24_AsStated ==
    /\ InTraversal ~> (call.op = "returned")
    /\ [](call.op \in {"impact", "chain", "returned"} =>
             \A f \in QueryPaths : Expansions(f) <= 1)

\* C24, amended: every chain and impact traversal that has started returns,
\* on every graph, with the result of the method; the loops never expand a
\* file more than once, except that impact expands its start file a second
\* time when the start file is found among the affected files
C24_TraversalsTerminate ==
    /\ InTraversal ~> (call.op = "returned")
    /\ [](call.op \in {"impact", "chain", "returned"} =>
             \A f \in QueryPaths :
                IF ImpactFrame /\ call.file = f
                THEN Expansions(f) <= 2
                ELSE Expansions(f) <= 1)
    /\ [](call.op = "returned" =>
             CASE call.of = "impact" -> res.value.affected = Affected(graph, call.file)
               [] call.of = "chain" ->
                    Ret(res.value.chain)
                       = get_dependency_chain(graph, call.file, call.max_depth)
               [] OTHER -> TRUE)

\* an impact traversal has returned after expanding its start file twice, on
\* a graph in which the start file lies on a cycle
C24_Witness ==
    /\ call.op = "returned"
    /\ call.of = "impact"
    /\ Expansions(call.file) = 2
    /\ call.file \in res.value.affected

\* the header of the request is the scheme word followed by the text of one
\* token, and the token decodes to the id of a user in users_db
WellAuthorized ==
    /\ Len(call.header) >= 2
    /\ call.header[1] = Bearer
    /\ LET token == Tail(call.header)
       IN /\ token \in DOMAIN TokenPayloads
          /\ "user_id" \in DOMAIN TokenPayloads[token]
          /\ TokenPayloads[token].user_id \in disk.users_db

\* C25 as stated: a request to a protected endpoint passes authentication
\* iff its header is 'Bearer <token>' with a token that decodes to a user_id
\* in users_db; otherwise it is answered 401 and nothing was looked up; a
\* valid token for a repository that does not exist is answered 404
C25_AsStated ==
    (call.op = "request") =>
        /\ WellAuthorized <=> ~(res.raised /\ res.value.status_code = 401)
        /\ ~WellAuthorized => call.lookups = 0
        /\ (WellAuthorized /\ call.endpoint = "repository"
               /\ call.repo_id \notin DOMAIN disk.repositories_db)
              => (res.raised /\ res.value.status_code = 404)

\* the line of the declaration that encloses line n, or 0
EnclosingLine(lines, n) ==
    LET outer == {k \in 1..(n - 1) : /\ lines[k].kind \in {"class", "def", "def_import"}
                                     /\ lines[k].indent < lines[n].indent
                                     /\ \A j \in (k + 1)..(n - 1) :
                                           lines[j].kind = "blank"
                                           \/ lines[j].indent > lines[k].indent}
    IN IF outer = {} THEN 0 ELSE CHOOSE k \in outer : \A j \in outer : j <= k

\* the canonical kinds the statements of a line yield
KindsOfLine(line) ==
    CASE line.kind = "class" -> {"class"}
      [] line.kind = "def" -> {"def"}
      [] line.kind = "import" -> {"import"}
      [] line.kind = "def_import" -> {"def", "import"}
      [] OTHER -> {}

KindOfNode(node) == IF node.type \in {"function", "method"} THEN "def" ELSE node.type

StrictlyIncreasing(seq) == \A j \in 1..(Len(seq) - 1) : seq[j] < seq[j + 1]

\* C26 as stated, for the forest of the grammar adapter: the mapped
\* statements of the source and the discovered nodes correspond one to one;
\* a node is a child of the node of the nearest enclosing mapped statement
\* and of no other node; a node without an enclosing mapped statement is in
\* the top-level list; children and top-level list are in document order
C26_AsStated ==
    (call.op = "parse" /\ call.served_by = "grammar") =>
        LET lines == disk.source
            heap == res.value.heap
            roots == res.value.roots
            all == 1..Len(heap)
            Expected(i) ==
                IF heap[i].type = "import" /\ lines[heap[i].start_line].kind = "def_import"
                THEN heap[i].start_line
                ELSE EnclosingLine(lines, heap[i].start_line)
            Parents(i) == {p \in all : i \in Range(heap[p].children)}
        IN /\ \A n \in 1..Len(lines), k \in {"class", "def", "import"} :
                 Cardinality({i \in all : heap[i].start_line = n /\ KindOfNode(heap[i]) = k})
                    = IF k \in KindsOfLine(lines[n]) THEN 1 ELSE 0
           /\ \A i \in all :
                 /\ Expected(i) # 0 =>
                       /\ Cardinality(Parents(i)) = 1
                       /\ \A p \in Parents(i) :
                             /\ heap[p].start_line = Expected(i)
                             /\ KindOfNode(heap[p]) \in {"class", "def"}
                 /\ Expected(i) = 0 => (Parents(i) = {} /\ i \in Range(roots))
                 /\ StrictlyIncreasing([j \in 1..Len(heap[i].children) |->
                                           heap[heap[i].children[j]].start_line])
           /\ \A j \in 1..Len(roots) : Parents(roots[j]) = {}
           /\ StrictlyIncreasing([j \in 1..Len(roots) |-> heap[roots[j]].start_line])

\* the later lines that end the block of a declaration on line n: they are
\* not blank and are indented no deeper than the declaration
Closers(lines, n) ==
    {k \in (n + 1)..Len(lines) :
        lines[k].kind # "blank" /\ lines[k].indent <= lines[n].indent}

\* C27: the fallback extractor for Python yields, for each def or class
\* declaration on line s, one node that starts on line s and ends on the
\* line before the first later line that is not blank and is indented no
\* deeper than the declaration, or on the last line when there is none; so
\* start_line <= end_line <= number of lines
C27_FallbackRanges ==
    (call.op = "parse" /\ call.served_by = "fallback" /\ call.language = "python") =>
        LET lines == disk.source
            heap == res.value.heap
        IN /\ \A s \in 1..Len(lines) :
                 Cardinality({i \in 1..Len(heap) : heap[i].start_line = s})
                    = IF lines[s].kind \in {"def", "class", "def_import", "import"}
                      THEN 1 ELSE 0
           /\ \A i \in 1..Len(heap) :
                 heap[i].type \in {"function", "class"} =>
                    LET s == heap[i].start_line
                    IN /\ lines[s].kind \in {"def", "class", "def_import"}
                       /\ heap[i].end_line =
                             IF Closers(lines, s) = {} THEN Len(lines)
                             ELSE (CHOOSE k \in Closers(lines, s) :
                                      \A j \in Closers(lines, s) : k <= j) - 1
                       /\ s <= heap[i].end_line
                       /\ heap[i].end_line <= Len(lines)

\* the fallback extractor has returned a declaration whose block holds a
\* blank line and ends before the last line of the text
C27_Witness ==
    /\ call.op = "parse"
    /\ call.served_by = "fallback"
    /\ call.language = "python"
    /\ \E i \in 1..Len(res.value.heap) :
          /\ res.value.heap[i].type = "function"
          /\ res.value.heap[i].end_line < Len(disk.source)
          /\ \E k \in (res.value.heap[i].start_line + 1)..res.value.heap[i].end_line :
                disk.source[k].kind = "blank"

\* the nodes reached from some node of S along one import edge
Imported(G, S) == {v \in NodeSet(G) : \E u \in S : <<u, v>> \in EdgeSet(G)}

RECURSIVE GrowForward(_, _)
GrowForward(G, S) ==
    LET T == S \cup Imported(G, S) IN IF T = S THEN S ELSE GrowForward(G, T)

\* f lies on a directed import cycle: following one or more import edges
\* from f leads back to f
OnCycle(G, f) == f \in GrowForward(G, Imported(G, {f}))

\* C28: the affected set impact(f) computes holds f itself iff f lies on a
\* directed import cycle, a self-import included; for a file on no cycle
\* total_affected counts files other than f only, and every direct
\* dependent is counted, so len(direct_dependents) <= total_affected
C28_SelfAffectedIffOnCycle ==
    (call.op = "impact" /\ HasNode(graph, call.file)) =>
        LET f == call.file
            affected == Affected(graph, f)
        IN /\ IsImpactReport(res)
           /\ f \in affected <=> OnCycle(graph, f)
           /\ res.value.total_affected = Cardinality(affected)
           /\ res.value.affected_files \subseteq affected
           /\ ~OnCycle(graph, f) =>
                 /\ f \notin res.value.affected_files
                 /\ res.value.total_affected = Cardinality(affected \ {f})
                 /\ Range(res.value.direct_dependents) \subseteq affected \ {f}
                 /\ Len(res.value.direct_dependents) <= res.value.total_affected

\* impact() of a file that imports itself and nothing else imports: the
\* file is its only affected file
C28_Witness ==
    /\ call.op = "impact"
    /\ IsImpactReport(res)
    /\ OnCycle(graph, call.file)
    /\ res.value.affected_files = {call.file}
    /\ res.value.total_affected = 1
    /\ res.value.direct_dependents = <<call.file>>

\* C29 as stated: in both impact endpoints the cycle factor passed to the
\* risk score for a file is true iff the file lies on a directed cycle of
\* the analyzed graph, however many cycles the graph has
C29_AsStated ==
    /\ (call.op = "impact_request" /\ call.analyzed /\ HasNode(graph, call.file)) =>
          (call.has_cycles <=> OnCycle(graph, call.file))
    /\ (call.op = "codebase_request") =>
          \A node \in NodeSet(graph) : call.has_cycles[node] <=> OnCycle(graph, node)


(***************************************************************************)
(* The graph the analytics query and the DependencyGraph that              *)
(* analyze_repository returns.                                             *)
(***************************************************************************)
\* the positions of the edges of the returned list with is_external = false
NonExternal(edges) == {i \in 1..Len(edges) : ~edges[i].is_external}

NonExternalPairs(edges) ==
    {<<edges[i].source, edges[i].target>> : i \in NonExternal(edges)}

\* a file imports the same file more than once
RepeatedImport(edges) ==
    \E i, j \in NonExternal(edges) :
        /\ i < j
        /\ edges[i].source = edges[j].source
        /\ edges[i].target = edges[j].target

HasExternal(edges) == \E i \in 1..Len(edges) : edges[i].is_external

\* C30: after every analyze_repository the internal graph and the returned
\* DependencyGraph agree: the node set of the graph is the set of the
\* returned nodes (nothing else, an external specifier included, has become
\* a node), its edge set is the set of (source, target) pairs of the
\* returned edges with is_external = false, get_graph_stats reports
\* total_files = len(nodes) and total_dependencies = the number of distinct
\* non-external pairs, and that number is less than the number of
\* non-external edges of the list when a file imports one target more than
\* once; a later stats call returns the node and edge counts of that graph.
C30_GraphAgreesWithResult ==
    /\ call.op = "analyze" =>
          LET r == res.value
              stats == get_graph_stats(graph).value
          IN /\ ~graph.isNone
             /\ NodeSet(graph) = Range(r.nodes)
             /\ \A n \in NodeSet(graph) :
                   Range(graph.succ[n]) \cup Range(graph.pred[n]) \subseteq Range(r.nodes)
             /\ EdgeSet(graph) = NonExternalPairs(r.edges)
             /\ stats.total_files = Len(r.nodes)
             /\ stats.total_dependencies = Cardinality(NonExternalPairs(r.edges))
             /\ stats.total_dependencies <= Cardinality(NonExternal(r.edges))
             /\ RepeatedImport(r.edges) <=>
                   stats.total_dependencies < Cardinality(NonExternal(r.edges))
    /\ (call.op = "stats" /\ ~graph.isNone) =>
          /\ res.value.total_files = Cardinality(NodeSet(graph))
          /\ res.value.total_dependencies = Cardinality(EdgeSet(graph))

\* an analysis whose list holds an external edge and the same import twice,
\* so that the graph has fewer edges than the list has non-external ones
C30_Witness ==
    /\ call.op = "analyze"
    /\ HasExternal(res.value.edges)
    /\ RepeatedImport(res.value.edges)
    /\ number_of_edges(graph) < Cardinality(NonExternal(res.value.edges))
    /\ number_of_nodes(graph) = Len(res.value.nodes)

====
